---------------------------- MODULE Spec2Model ----------------------------
(***************************************************************************)
(* The ownership layer of RioluEngine: TSharedPointer, TWeakPointer,       *)
(* TUniquePtr and the Entity component list built on TSharedPointer.       *)
(*                                                                         *)
(* The heap is modelled explicitly.  A target object and a reference-count *)
(* cell each are "unalloc", "live" or "freed"; an address is never handed  *)
(* out twice.  Reading a freed count cell is undefined: each such read      *)
(* yields a value chosen nondeterministically among GarbageVals, and a     *)
(* write to freed storage is lost.  Every access to freed storage is       *)
(* recorded in last.uaf.  A second delete of the same storage is counted   *)
(* and ends the run: nothing is enabled once a free count reaches          *)
(* MaxFrees.                                                               *)
(***************************************************************************)
EXTENDS Integers, Sequences, FiniteSets, TLC

\* ------------------------------------------------------------------ bounds
NumShared == 2
NumWeak == 1
NumUnique == 2
MaxObj == 1
MaxCell == 1
MaxUniqueObj == 2
MaxComponents == 2
NumStatic == 2
MaxCoord == 100
MaxGroups == 2
MaxStaticObj == 2

Handles == 1..NumShared
Weaks == 1..NumWeak
Uniques == 1..NumUnique
Objs == 1..MaxObj
Cells == 1..MaxCell

\* What a read of a freed int can yield: 0 fails the test `*refCount > 0`,
\* 1 passes it and makes `--(*refCount) == 0` true, 2 passes it and does not.
GarbageVals == {0, 1, 2}

\* The run ends at the first storage freed MaxFrees times.
MaxFrees == 2

\* --------------------------------------------------------------- the types
\* Component is the abstract base of CShape and Transform.
ObjTypes == {"CShape", "Transform"}
CastTypes == {"Component", "CShape", "Transform"}

\* dynamic_cast<U*>(p) succeeds iff the runtime type t is U or derives from U.
Derives(t, U) == t = U \/ (U = "Component" /\ t \in ObjTypes)

VARIABLES
    obj,        \* obj[o]  = [st, type, frees]: a target object on the heap
    cell,       \* cell[c] = [st, val, frees]: a `new int` reference count
    sh,         \* sh[h]   = [live, ptr, rc]: a TSharedPointer
    wk,         \* wk[w]   = [live, ptr, rc]: a TWeakPointer
    uq,         \* uq[u]   = [live, ptr]: a TUniquePtr
    raws,       \* raw pointers the caller holds (from get() or release())
    components, \* Entity::components, a vector of TSharedPointer<Component>
    instance,   \* TStaticPtr<T>::instance, the slot of one type T (0 = nullptr)
    statics,    \* the number of TStaticPtr<T> objects alive
    members,    \* members[o]: the TSharedPointer members of the object o
    data,       \* data[o] = [position, rotation, scale] of a component
    app,        \* BaseApp: its members, the definition of run() the build
                \* has (def), the position of run() (pc), whether the window
                \* is open, the ERROR reports of run(), the calls of its
                \* loop, whether a null window was dereferenced, its result,
                \* and the frame time the window measured last (deltaTime)
    last        \* the operation that produced this state

vars == <<obj, cell, sh, wk, uq, raws, components, instance, statics,
          members, data, app, last>>

NoSharedRec == [live |-> FALSE, ptr |-> 0, rc |-> 0]
NoUniqueRec == [live |-> FALSE, ptr |-> 0]
\* last = [op, dst, src, arg, uaf]: the operation, the slot it built or acted
\* on, the slot of its other operand, its type argument, and whether it
\* touched freed storage.
NoOp == [op |-> "init", dst |-> 0, src |-> 0, arg |-> "none", uaf |-> FALSE]

\* The fields of a component before its constructor has run, and BaseApp
\* before run() is called.
NoData == [position |-> <<0, 0>>, rotation |-> <<0, 0>>, scale |-> <<1, 1>>]
NoApp ==
    [def |-> 0, pc |-> "idle", initOk |-> FALSE,
     m_windowPtr |-> [live |-> TRUE, ptr |-> 0, rc |-> 0],
     m_shapePtr |-> [live |-> TRUE, ptr |-> 0, rc |-> 0],
     m_ACircle |-> [live |-> TRUE, ptr |-> 0, rc |-> 0],
     m_waypoints |-> <<>>, m_currentWaypointIndex |-> 0,
     deltaTime |-> <<0, 1>>, open |-> FALSE, reported |-> 0, calls |-> {}, derefNull |-> FALSE,
     result |-> 0]

Op(name, d, s, a, u) == [op |-> name, dst |-> d, src |-> s, arg |-> a, uaf |-> u]

\* ---------------------------------------------------------------- the heap
Heap == [obj |-> obj, cell |-> cell, uaf |-> FALSE, members |-> members]

Min(S) == CHOOSE x \in S : \A y \in S : x <= y

\* A constructor builds its handle in the first slot that holds no handle.
FreeHandles == {h \in Handles : ~sh[h].live}
FreeWeaks == {w \in Weaks : ~wk[w].live}
IsNext(x, S) == S # {} /\ x = Min(S)

FreeObjs == {o \in DOMAIN obj : obj[o].st = "unalloc"}
FreeCells == {c \in DOMAIN cell : cell[c].st = "unalloc"}

\* new T(...): the next unused address becomes a live object of type t
NewObj(H, o, t) == [H EXCEPT !.obj[o] = [st |-> "live", type |-> t, frees |-> 0]]

\* new int(1)
NewCell(H, c) == [H EXCEPT !.cell[c] = [st |-> "live", val |-> 1, frees |-> 0]]

\* delete ptr: a no-op on nullptr; the destructor ends the object's type
DeleteObj(H, p) ==
    IF p = 0 THEN H
    ELSE [H EXCEPT !.obj[p].st = "freed",
                   !.obj[p].type = "none",
                   !.obj[p].frees = @ + 1,
                   !.uaf = @ \/ H.obj[p].st # "live"]

\* delete refCount
DeleteCell(H, c) ==
    [H EXCEPT !.cell[c] = [st |-> "freed", val |-> 0, frees |-> @.frees + 1],
              !.uaf = @ \/ H.cell[c].st # "live"]

\* *refCount: the stored value, or g when the cell has been freed
ReadCount(H, c, g) == IF H.cell[c].st = "live" THEN H.cell[c].val ELSE g

\* *refCount = v: lost when the cell has been freed
WriteCount(H, c, v) ==
    IF H.cell[c].st = "live"
    THEN [H EXCEPT !.cell[c].val = v]
    ELSE [H EXCEPT !.uaf = TRUE]

\* if (refCount) ++(*refCount); counting the new alias twice
IncCountTwice(H, c) ==
    IF c = 0 THEN H ELSE WriteCount(H, c, ReadCount(H, c, 0) + 2)

\* if (refCount) ++(*refCount);
IncCount(H, c) ==
    IF c = 0 THEN H ELSE WriteCount(H, c, ReadCount(H, c, 0) + 1)

\* No storage has been freed MaxFrees times.
Running ==
    /\ \A o \in DOMAIN obj : obj[o].frees < MaxFrees
    /\ \A c \in DOMAIN cell : cell[c].frees < MaxFrees


\* ----------------------------------------------------------- TSharedPointer
\* `delete ptr` first runs the destructor of *ptr, which destroys the handles
\* the object holds (Entity::components, first to last), each by release();
\* a handle among them that reads a freed count reads the same g.
RECURSIVE Release(_, _, _, _)
RECURSIVE DestroyMembers(_, _, _, _)
DestroyMembers(H, p, i, g) ==
    IF p = 0 THEN H
    ELSE IF i > Len(H.members[p]) THEN [H EXCEPT !.members[p] = <<>>]
    ELSE LET r == H.members[p][i]
         IN  DestroyMembers(Release(H, r.ptr, r.rc, g), p, i + 1, g)

\* release() whose `delete ptr` leaves the handles inside *ptr alone
ReleaseShallow(H, p, c, g) ==
    IF c = 0 THEN H
    ELSE LET nv == ReadCount(H, c, g) - 1
             H1 == WriteCount(H, c, nv)
         IN  IF nv = 0 THEN DeleteCell(DeleteObj(H1, p), c) ELSE H1

\* release(): if (refCount && --(*refCount) == 0) { delete ptr; delete refCount; }
\* The caller nulls the handle's two fields afterwards.
Release(H, p, c, g) ==
    IF c = 0 THEN H
    ELSE LET nv == ReadCount(H, c, g) - 1
             H1 == WriteCount(H, c, nv)
         IN  IF nv = 0
             THEN DeleteCell(DeleteObj(DestroyMembers(H1, p, 1, g), p), c)
             ELSE H1

\* The values a read of the count of r can yield beyond the stored one: a
\* choice only when that count has been freed.
Garbage(r) == IF r.rc # 0 /\ cell[r.rc].st = "freed" THEN GarbageVals ELSE {0}

\* The ways dynamic_cast can fall on the target of r: a choice only when the
\* target has been freed.
CastUB(r) == IF r.ptr # 0 /\ obj[r.ptr].st # "live" THEN BOOLEAN ELSE {FALSE}

\* The handle a constructor leaves behind.
SharedRec(p, c) == [live |-> TRUE, ptr |-> p, rc |-> c]

\* dynamic_cast<U*>(ptr): null on nullptr, decided by the runtime type of a
\* live object; reading the type of a freed object is undefined, and `ub`
\* says which way that read falls.
DynamicCast(H, p, U, ub) ==
    IF p = 0 THEN 0
    ELSE IF H.obj[p].st = "live"
         THEN (IF Derives(H.obj[p].type, U) THEN p ELSE 0)
         ELSE (IF ub THEN p ELSE 0)

\* Writes the heap and the record of the operation.
ApplyArg(H, name, d, s, a) ==
    /\ obj' = H.obj
    /\ cell' = H.cell
    /\ members' = H.members
    /\ last' = Op(name, d, s, a, H.uaf)

Apply(H, name, d, s) == ApplyArg(H, name, d, s, "none")

\* TSharedPointer()
SharedDefault(h) ==
    /\ Running
    /\ IsNext(h, FreeHandles)
    /\ sh' = [sh EXCEPT ![h] = SharedRec(0, 0)]
    /\ Apply(Heap, "default", h, 0)
    /\ UNCHANGED <<wk, uq, raws, components, instance, statics, data, app>>

\* explicit TSharedPointer(T* rawPtr), rawPtr = new t(...)
SharedFromRaw(h, t) ==
    /\ Running
    /\ IsNext(h, FreeHandles)
    /\ FreeObjs # {} /\ FreeCells # {}
    /\ LET o == Min(FreeObjs)
           c == Min(FreeCells)
       IN  /\ sh' = [sh EXCEPT ![h] = SharedRec(o, c)]
           /\ Apply(NewCell(NewObj(Heap, o, t), c), "fromRaw", h, 0)
    /\ UNCHANGED <<wk, uq, raws, components, instance, statics, data, app>>

\* explicit TSharedPointer(T* rawPtr), rawPtr = nullptr
SharedFromNull(h) ==
    /\ Running
    /\ IsNext(h, FreeHandles)
    /\ FreeCells # {}
    /\ LET c == Min(FreeCells)
       IN  /\ sh' = [sh EXCEPT ![h] = SharedRec(0, c)]
           /\ Apply(NewCell(Heap, c), "fromNull", h, 0)
    /\ UNCHANGED <<wk, uq, raws, components, instance, statics, data, app>>

\* TSharedPointer(T* rawPtr, int* existingRefCount) called from outside the
\* handle family: refCount is private, so the only count pointer a caller
\* has is nullptr; rawPtr is new t(...), or nullptr when t = "null".
SharedFromRawCount(h, t) ==
    /\ Running
    /\ IsNext(h, FreeHandles)
    /\ IF t = "null"
       THEN /\ sh' = [sh EXCEPT ![h] = SharedRec(0, 0)]
            /\ Apply(IncCount(Heap, 0), "fromRawCount", h, 0)
       ELSE /\ FreeObjs # {}
            /\ LET o == Min(FreeObjs)
               IN  /\ sh' = [sh EXCEPT ![h] = SharedRec(o, 0)]
                   /\ Apply(IncCount(NewObj(Heap, o, t), 0), "fromRawCount", h, 0)
    /\ UNCHANGED <<wk, uq, raws, components, instance, statics, data, app>>

\* TSharedPointer(const TSharedPointer<T>& other)
SharedCopy(h, s) ==
    /\ Running
    /\ IsNext(h, FreeHandles) /\ sh[s].live
    /\ sh' = [sh EXCEPT ![h] = SharedRec(sh[s].ptr, sh[s].rc)]
    /\ Apply(IncCount(Heap, sh[s].rc), "copy", h, s)
    /\ UNCHANGED <<wk, uq, raws, components, instance, statics, data, app>>

\* template<U> TSharedPointer(const TSharedPointer<U>& other), U* to T*
SharedCopyFrom(h, s) ==
    /\ Running
    /\ IsNext(h, FreeHandles) /\ sh[s].live
    /\ sh' = [sh EXCEPT ![h] = SharedRec(sh[s].ptr, sh[s].rc)]
    /\ Apply(IncCount(Heap, sh[s].rc), "copyFrom", h, s)
    /\ UNCHANGED <<wk, uq, raws, components, instance, statics, data, app>>

\* TSharedPointer(TSharedPointer<T>&& other) that leaves `other` as it was
SharedMoveKeepSource(h, s) ==
    /\ Running
    /\ IsNext(h, FreeHandles) /\ sh[s].live
    /\ sh' = [sh EXCEPT ![h] = SharedRec(sh[s].ptr, sh[s].rc)]
    /\ Apply(Heap, "move", h, s)
    /\ UNCHANGED <<wk, uq, raws, components, instance, statics, data, app>>

\* TSharedPointer(TSharedPointer<T>&& other)
SharedMove(h, s) ==
    /\ Running
    /\ IsNext(h, FreeHandles) /\ sh[s].live
    /\ sh' = [sh EXCEPT ![h] = SharedRec(sh[s].ptr, sh[s].rc),
                        ![s] = SharedRec(0, 0)]
    /\ Apply(Heap, "move", h, s)
    /\ UNCHANGED <<wk, uq, raws, components, instance, statics, data, app>>

\* operator=(const TSharedPointer<T>& other) without `if (this != &other)`
SharedCopyAssignNoSelfTest(h, s, g) ==
    /\ Running
    /\ sh[h].live /\ sh[s].live
    /\ sh' = [sh EXCEPT ![h] = SharedRec(sh[s].ptr, sh[s].rc)]
    /\ Apply(IncCount(Release(Heap, sh[h].ptr, sh[h].rc, g), sh[s].rc),
             "copyAssign", h, s)
    /\ UNCHANGED <<wk, uq, raws, components, instance, statics, data, app>>

\* operator=(const TSharedPointer<T>& other)
SharedCopyAssign(h, s, g) ==
    /\ Running
    /\ sh[h].live /\ sh[s].live
    /\ IF h = s
       THEN /\ sh' = sh
            /\ Apply(Heap, "copyAssign", h, s)
       ELSE /\ sh' = [sh EXCEPT ![h] = SharedRec(sh[s].ptr, sh[s].rc)]
            /\ Apply(IncCount(Release(Heap, sh[h].ptr, sh[h].rc, g), sh[s].rc),
                     "copyAssign", h, s)
    /\ UNCHANGED <<wk, uq, raws, components, instance, statics, data, app>>

\* operator=(TSharedPointer<T>&& other)
SharedMoveAssign(h, s, g) ==
    /\ Running
    /\ sh[h].live /\ sh[s].live
    /\ IF h = s
       THEN /\ sh' = sh
            /\ Apply(Heap, "moveAssign", h, s)
       ELSE /\ sh' = [sh EXCEPT ![h] = SharedRec(sh[s].ptr, sh[s].rc),
                                ![s] = SharedRec(0, 0)]
            /\ Apply(Release(Heap, sh[h].ptr, sh[h].rc, g), "moveAssign", h, s)
    /\ UNCHANGED <<wk, uq, raws, components, instance, statics, data, app>>

\* ~TSharedPointer()
SharedDestroy(h, g) ==
    /\ Running
    /\ sh[h].live
    /\ sh' = [sh EXCEPT ![h] = NoSharedRec]
    /\ Apply(Release(Heap, sh[h].ptr, sh[h].rc, g), "destroy", h, 0)
    /\ UNCHANGED <<wk, uq, raws, components, instance, statics, data, app>>

\* swap(TSharedPointer<T>& other) that exchanges ptr only
SharedSwapPtrOnly(h, s) ==
    /\ Running
    /\ sh[h].live /\ sh[s].live
    /\ sh' = [sh EXCEPT ![h] = SharedRec(sh[s].ptr, sh[h].rc),
                        ![s] = SharedRec(sh[h].ptr, sh[s].rc)]
    /\ Apply(Heap, "swap", h, s)
    /\ UNCHANGED <<wk, uq, raws, components, instance, statics, data, app>>

\* swap(TSharedPointer<T>& other)
SharedSwap(h, s) ==
    /\ Running
    /\ sh[h].live /\ sh[s].live
    /\ sh' = [sh EXCEPT ![h] = SharedRec(sh[s].ptr, sh[s].rc),
                        ![s] = SharedRec(sh[h].ptr, sh[h].rc)]
    /\ Apply(Heap, "swap", h, s)
    /\ UNCHANGED <<wk, uq, raws, components, instance, statics, data, app>>

\* reset(new t(...)) without the call of release()
SharedResetNoRelease(h, t, g) ==
    /\ Running
    /\ sh[h].live
    /\ FreeObjs # {} /\ FreeCells # {}
    /\ LET o == Min(FreeObjs)
           c == Min(FreeCells)
       IN  /\ sh' = [sh EXCEPT ![h] = SharedRec(o, c)]
           /\ Apply(NewCell(NewObj(Heap, o, t), c), "reset", h, 0)
    /\ UNCHANGED <<wk, uq, raws, components, instance, statics, data, app>>

\* reset(new t(...))
SharedReset(h, t, g) ==
    /\ Running
    /\ sh[h].live
    /\ FreeObjs # {} /\ FreeCells # {}
    /\ LET o == Min(FreeObjs)
           c == Min(FreeCells)
           H1 == Release(Heap, sh[h].ptr, sh[h].rc, g)
       IN  /\ sh' = [sh EXCEPT ![h] = SharedRec(o, c)]
           /\ Apply(NewCell(NewObj(H1, o, t), c), "reset", h, 0)
    /\ UNCHANGED <<wk, uq, raws, components, instance, statics, data, app>>

\* reset() / reset(nullptr)
SharedResetNull(h, g) ==
    /\ Running
    /\ sh[h].live
    /\ sh' = [sh EXCEPT ![h] = SharedRec(0, 0)]
    /\ Apply(Release(Heap, sh[h].ptr, sh[h].rc, g), "resetNull", h, 0)
    /\ UNCHANGED <<wk, uq, raws, components, instance, statics, data, app>>

\* r.dynamic_pointer_cast<U>(): the handle it returns and the heap after it.
\* A successful cast returns TSharedPointer<U>(castedPtr, refCount), which
\* increments the count; a failed one returns TSharedPointer<U>().
DynamicPointerCastNoCheck(H, r, U, ub) ==
    [ret |-> SharedRec(DynamicCast(H, r.ptr, U, ub), r.rc),
     heap |-> IncCount(H, r.rc)]

DynamicPointerCast(H, r, U, ub) ==
    LET castedPtr == DynamicCast(H, r.ptr, U, ub)
        H1 == [H EXCEPT !.uaf = @ \/ (r.ptr # 0 /\ H.obj[r.ptr].st # "live")]
    IN  IF castedPtr # 0
        THEN [ret |-> SharedRec(castedPtr, r.rc), heap |-> IncCount(H1, r.rc)]
        ELSE [ret |-> SharedRec(0, 0), heap |-> H1]

\* h = s.dynamic_pointer_cast<U>()
SharedCast(h, s, U, ub) ==
    /\ Running
    /\ IsNext(h, FreeHandles) /\ sh[s].live
    /\ LET r == DynamicPointerCast(Heap, sh[s], U, ub)
       IN  /\ sh' = [sh EXCEPT ![h] = r.ret]
           /\ ApplyArg(r.heap, "cast", h, s, U)
    /\ UNCHANGED <<wk, uq, raws, components, instance, statics, data, app>>

\* ------------------------------------------------------------- TWeakPointer
\* TWeakPointer()
WeakDefault(w) ==
    /\ Running
    /\ IsNext(w, FreeWeaks)
    /\ wk' = [wk EXCEPT ![w] = SharedRec(0, 0)]
    /\ Apply(Heap, "weakDefault", w, 0)
    /\ UNCHANGED <<sh, uq, raws, components, instance, statics, data, app>>

\* TWeakPointer(const TSharedPointer<T>& sharedPtr) that counts itself as an
\* alias
WeakFromSharedCounting(w, s) ==
    /\ Running
    /\ IsNext(w, FreeWeaks) /\ sh[s].live
    /\ wk' = [wk EXCEPT ![w] = SharedRec(sh[s].ptr, sh[s].rc)]
    /\ Apply(IncCount(Heap, sh[s].rc), "weakFromShared", w, s)
    /\ UNCHANGED <<sh, uq, raws, components, instance, statics, data, app>>

\* TWeakPointer(const TSharedPointer<T>& sharedPtr)
WeakFromShared(w, s) ==
    /\ Running
    /\ IsNext(w, FreeWeaks) /\ sh[s].live
    /\ wk' = [wk EXCEPT ![w] = SharedRec(sh[s].ptr, sh[s].rc)]
    /\ Apply(Heap, "weakFromShared", w, s)
    /\ UNCHANGED <<sh, uq, raws, components, instance, statics, data, app>>

\* ~TWeakPointer() (implicit)
WeakDestroy(w) ==
    /\ Running
    /\ wk[w].live
    /\ wk' = [wk EXCEPT ![w] = NoSharedRec]
    /\ Apply(Heap, "weakDestroy", w, 0)
    /\ UNCHANGED <<sh, uq, raws, components, instance, statics, data, app>>

\* r.lock(): the handle it returns and the heap after it.
\*   if (refCount && *refCount > 0) return TSharedPointer<T>(ptr, refCount);
\*   return TSharedPointer<T>();
LockNoTest(H, r, g) ==
    [ret |-> SharedRec(r.ptr, r.rc), heap |-> IncCount(H, r.rc)]

\* lock() whose returned handle does not count itself
LockNoCount(H, r, g) ==
    IF r.rc # 0 /\ ReadCount(H, r.rc, g) > 0
    THEN [ret |-> SharedRec(r.ptr, r.rc), heap |-> H]
    ELSE [ret |-> SharedRec(0, 0), heap |-> H]

Lock(H, r, g) ==
    LET H1 == [H EXCEPT !.uaf = @ \/ (r.rc # 0 /\ H.cell[r.rc].st # "live")]
    IN  IF r.rc # 0 /\ ReadCount(H, r.rc, g) > 0
        THEN [ret |-> SharedRec(r.ptr, r.rc), heap |-> IncCount(H1, r.rc)]
        ELSE [ret |-> SharedRec(0, 0), heap |-> H1]

\* h = w.lock()
WeakLock(h, w, g) ==
    /\ Running
    /\ IsNext(h, FreeHandles) /\ wk[w].live
    /\ LET r == Lock(Heap, wk[w], g)
       IN  /\ sh' = [sh EXCEPT ![h] = r.ret]
           /\ Apply(r.heap, "lock", h, w)
    /\ UNCHANGED <<wk, uq, raws, components, instance, statics, data, app>>

\* --------------------------------------------------------------- TUniquePtr
UniqueRec(p) == [live |-> TRUE, ptr |-> p]

FreeUniques == {u \in Uniques : ~uq[u].live}

\* TUniquePtr()
UniqueDefault(u) ==
    /\ Running
    /\ IsNext(u, FreeUniques)
    /\ uq' = [uq EXCEPT ![u] = UniqueRec(0)]
    /\ Apply(Heap, "uDefault", u, 0)
    /\ UNCHANGED <<sh, wk, raws, components, instance, statics, data, app>>

\* explicit TUniquePtr(T* rawPtr), rawPtr = new t(...); MakeUnique<t>()
UniqueFromRaw(u, t) ==
    /\ Running
    /\ IsNext(u, FreeUniques)
    /\ FreeObjs # {}
    /\ LET o == Min(FreeObjs)
       IN  /\ uq' = [uq EXCEPT ![u] = UniqueRec(o)]
           /\ Apply(NewObj(Heap, o, t), "uFromRaw", u, 0)
    /\ UNCHANGED <<sh, wk, raws, components, instance, statics, data, app>>

\* explicit TUniquePtr(T* rawPtr), rawPtr a pointer the caller got from get()
\* or release()
UniqueAdopt(u, p) ==
    /\ Running
    /\ IsNext(u, FreeUniques)
    /\ p \in raws
    /\ uq' = [uq EXCEPT ![u] = UniqueRec(p)]
    /\ Apply(Heap, "uAdopt", u, 0)
    /\ UNCHANGED <<sh, wk, raws, components, instance, statics, data, app>>

\* TUniquePtr(TUniquePtr<T>&& other)
UniqueMove(u, s) ==
    /\ Running
    /\ IsNext(u, FreeUniques) /\ uq[s].live
    /\ uq' = [uq EXCEPT ![u] = UniqueRec(uq[s].ptr), ![s] = UniqueRec(0)]
    /\ Apply(Heap, "uMove", u, s)
    /\ UNCHANGED <<sh, wk, raws, components, instance, statics, data, app>>

\* template<U> TUniquePtr(TUniquePtr<U>&& other) : ptr(other.release())
UniqueMoveFrom(u, s) ==
    /\ Running
    /\ IsNext(u, FreeUniques) /\ uq[s].live
    /\ LET oldPtr == uq[s].ptr
       IN  uq' = [uq EXCEPT ![s] = UniqueRec(0), ![u] = UniqueRec(oldPtr)]
    /\ Apply(Heap, "uMoveFrom", u, s)
    /\ UNCHANGED <<sh, wk, raws, components, instance, statics, data, app>>

\* operator=(TUniquePtr<T>&& other) without the test this != &other
UniqueMoveAssignNoSelfTest(u, s) ==
    /\ Running
    /\ uq[u].live /\ uq[s].live
    /\ uq' = [[uq EXCEPT ![u] = UniqueRec(uq[s].ptr)] EXCEPT ![s] = UniqueRec(0)]
    /\ Apply(DeleteObj(Heap, uq[u].ptr), "uMoveAssign", u, s)
    /\ UNCHANGED <<sh, wk, raws, components, instance, statics, data, app>>

\* operator=(TUniquePtr<T>&& other)
UniqueMoveAssign(u, s) ==
    /\ Running
    /\ uq[u].live /\ uq[s].live
    /\ IF u = s
       THEN /\ uq' = uq
            /\ Apply(Heap, "uMoveAssign", u, s)
       ELSE /\ uq' = [uq EXCEPT ![u] = UniqueRec(uq[s].ptr), ![s] = UniqueRec(0)]
            /\ Apply(DeleteObj(Heap, uq[u].ptr), "uMoveAssign", u, s)
    /\ UNCHANGED <<sh, wk, raws, components, instance, statics, data, app>>

\* ~TUniquePtr() that does not delete
UniqueDestroyLeak(u) ==
    /\ Running
    /\ uq[u].live
    /\ uq' = [uq EXCEPT ![u] = NoUniqueRec]
    /\ Apply(Heap, "uDestroy", u, 0)
    /\ UNCHANGED <<sh, wk, raws, components, instance, statics, data, app>>

\* ~TUniquePtr()
UniqueDestroy(u) ==
    /\ Running
    /\ uq[u].live
    /\ uq' = [uq EXCEPT ![u] = NoUniqueRec]
    /\ Apply(DeleteObj(Heap, uq[u].ptr), "uDestroy", u, 0)
    /\ UNCHANGED <<sh, wk, raws, components, instance, statics, data, app>>

\* get(): the caller now holds the raw pointer
UniqueGet(u) ==
    /\ Running
    /\ uq[u].live /\ uq[u].ptr # 0
    /\ raws' = raws \cup {uq[u].ptr}
    /\ Apply(Heap, "uGet", u, 0)
    /\ UNCHANGED <<sh, wk, uq, components, instance, statics, data, app>>

\* release(): the caller now holds the raw pointer and is responsible for it
UniqueRelease(u) ==
    /\ Running
    /\ uq[u].live
    /\ LET oldPtr == uq[u].ptr
       IN  /\ uq' = [uq EXCEPT ![u] = UniqueRec(0)]
           /\ raws' = IF oldPtr = 0 THEN raws ELSE raws \cup {oldPtr}
    /\ Apply(Heap, "uRelease", u, 0)
    /\ UNCHANGED <<sh, wk, components, instance, statics, data, app>>

\* reset(new t(...))
UniqueReset(u, t) ==
    /\ Running
    /\ uq[u].live
    /\ FreeObjs # {}
    /\ LET o == Min(FreeObjs)
       IN  /\ uq' = [uq EXCEPT ![u] = UniqueRec(o)]
           /\ Apply(NewObj(DeleteObj(Heap, uq[u].ptr), o, t), "uReset", u, 0)
    /\ UNCHANGED <<sh, wk, raws, components, instance, statics, data, app>>

\* reset(rawPtr), rawPtr = nullptr (p = 0) or a pointer the caller holds
UniqueResetTo(u, p) ==
    /\ Running
    /\ uq[u].live
    /\ p \in raws \cup {0}
    /\ uq' = [uq EXCEPT ![u] = UniqueRec(p)]
    /\ Apply(DeleteObj(Heap, uq[u].ptr), "uResetTo", u, 0)
    /\ UNCHANGED <<sh, wk, raws, components, instance, statics, data, app>>

\* --------------------------------------------------------------- TStaticPtr
\* One type T: every TStaticPtr<T> object shares the static member `instance`.
\* In last, dst is the pointer handed in or returned and src is the slot's
\* content before the operation.

\* if (instance != nullptr) { delete instance; }
DeleteInstance(H) == IF instance # 0 THEN DeleteObj(H, instance) ELSE H

\* static bool isNull()
StaticIsNull == instance = 0

\* TStaticPtr() = default
StaticDefault ==
    /\ Running
    /\ statics < NumStatic
    /\ statics' = statics + 1
    /\ Apply(Heap, "sDefault", 0, instance)
    /\ UNCHANGED <<sh, wk, uq, raws, components, instance, data, app>>

\* explicit TStaticPtr(T* rawPtr), rawPtr = new t(...)
StaticFromRaw(t) ==
    /\ Running
    /\ statics < NumStatic
    /\ FreeObjs # {}
    /\ LET o == Min(FreeObjs)
       IN  /\ instance' = o
           /\ Apply(NewObj(DeleteInstance(Heap), o, t), "sFromRaw", o, instance)
    /\ statics' = statics + 1
    /\ UNCHANGED <<sh, wk, uq, raws, components, data, app>>

\* explicit TStaticPtr(T* rawPtr), rawPtr a pointer the caller got from get()
StaticAdopt(p) ==
    /\ Running
    /\ statics < NumStatic
    /\ p \in raws
    /\ instance' = p
    /\ Apply(DeleteInstance(Heap), "sAdopt", p, instance)
    /\ statics' = statics + 1
    /\ UNCHANGED <<sh, wk, uq, raws, components, data, app>>

\* ~TStaticPtr() that frees nothing
StaticDestroyKeep ==
    /\ Running
    /\ statics > 0
    /\ statics' = statics - 1
    /\ Apply(Heap, "sDestroy", 0, instance)
    /\ UNCHANGED <<sh, wk, uq, raws, components, instance, data, app>>

\* ~TStaticPtr(): if (instance != nullptr) { delete instance; instance = nullptr; }
StaticDestroy ==
    /\ Running
    /\ statics > 0
    /\ statics' = statics - 1
    /\ instance' = 0
    /\ Apply(DeleteInstance(Heap), "sDestroy", 0, instance)
    /\ UNCHANGED <<sh, wk, uq, raws, components, data, app>>

\* p = TStaticPtr<T>::get()
StaticGet ==
    /\ Running
    /\ raws' = IF instance # 0 THEN raws \cup {instance} ELSE raws
    /\ Apply(Heap, "sGet", instance, instance)
    /\ UNCHANGED <<sh, wk, uq, components, instance, statics, data, app>>

\* TStaticPtr<T>::reset(rawPtr) that adopts without deleting
StaticResetKeep(t) ==
    /\ Running
    /\ FreeObjs # {}
    /\ LET o == Min(FreeObjs)
       IN  /\ instance' = o
           /\ Apply(NewObj(Heap, o, t), "sReset", o, instance)
    /\ UNCHANGED <<sh, wk, uq, raws, components, statics, data, app>>

\* TStaticPtr<T>::reset(rawPtr), rawPtr = new t(...)
StaticReset(t) ==
    /\ Running
    /\ FreeObjs # {}
    /\ LET o == Min(FreeObjs)
       IN  /\ instance' = o
           /\ Apply(NewObj(DeleteInstance(Heap), o, t), "sReset", o, instance)
    /\ UNCHANGED <<sh, wk, uq, raws, components, statics, data, app>>

\* TStaticPtr<T>::reset(rawPtr), rawPtr nullptr or a pointer from get()
StaticResetTo(p) ==
    /\ Running
    /\ p \in raws \cup {0}
    /\ instance' = p
    /\ Apply(DeleteInstance(Heap), "sReset", p, instance)
    /\ UNCHANGED <<sh, wk, uq, raws, components, statics, data, app>>

\* ------------------------------------------------------------------- Entity
\* Entity::addComponent<T>(TSharedPointer<T> component): the by-value
\* parameter is a copy of the caller's handle; the handle returned by
\* component.dynamic_pointer_cast<Component>() is moved to the end of the
\* vector; the parameter is released on return. PushComponent gives the
\* handle the vector receives and the heap once the call has returned.
\* addComponent whose by-value parameter is never released
PushComponentLeak(H, arg) ==
    LET H1 == IncCount(H, arg.rc)
        r == DynamicPointerCast(H1, arg, "Component", FALSE)
    IN  [ret |-> r.ret, heap |-> r.heap]

PushComponent(H, arg) ==
    LET H1 == IncCount(H, arg.rc)
        r == DynamicPointerCast(H1, arg, "Component", FALSE)
    IN  [ret |-> r.ret, heap |-> Release(r.heap, arg.ptr, arg.rc, 0)]

\* entity.addComponent(sh[h]) on an entity that is not on the heap
AddComponent(h) ==
    /\ Running
    /\ sh[h].live
    /\ Len(components) < MaxComponents
    /\ LET r == PushComponent(Heap, sh[h])
       IN  /\ components' = Append(components, r.ret)
           /\ Apply(r.heap, "addComponent", h, 0)
    /\ UNCHANGED <<sh, wk, uq, raws, instance, statics, data, app>>

\* getComponent<U>() that answers with the last match instead of the first
RECURSIVE GetComponentLast(_, _, _, _)
GetComponentLast(H, comps, i, U) ==
    IF i > Len(comps)
    THEN [ret |-> SharedRec(0, 0), heap |-> H]
    ELSE LET rest == GetComponentLast(H, comps, i + 1, U)
         IN  IF rest.ret.ptr # 0
             THEN rest
             ELSE DynamicPointerCast(H, comps[i], U, FALSE)

\* The loop of getComponent<U>() from the i-th component on: the first
\* handle whose dynamic_pointer_cast<U>() is non-null is returned; the empty
\* handle of a failed cast is destroyed at the end of its iteration.
RECURSIVE GetComponentFrom(_, _, _, _)
GetComponentFrom(H, comps, i, U) ==
    IF i > Len(comps)
    THEN [ret |-> SharedRec(0, 0), heap |-> H]
    ELSE LET specificComponent == DynamicPointerCast(H, comps[i], U, FALSE)
         IN  IF specificComponent.ret.ptr # 0
             THEN specificComponent
             ELSE GetComponentFrom(
                      Release(specificComponent.heap, specificComponent.ret.ptr,
                              specificComponent.ret.rc, 0),
                      comps, i + 1, U)

\* h = entity.getComponent<U>()
GetComponent(h, U) ==
    /\ Running
    /\ IsNext(h, FreeHandles)
    /\ LET r == GetComponentFrom(Heap, components, 1, U)
       IN  /\ sh' = [sh EXCEPT ![h] = r.ret]
           /\ ApplyArg(r.heap, "getComponent", h, 0, U)
    /\ UNCHANGED <<wk, uq, raws, components, instance, statics, data, app>>

\* -------------------------------------------------------------------- Actor
\* MakeShared<T>(): TSharedPointer<T>(new T()), at the next unused addresses
MakeSharedIn(H, t) ==
    LET o == Min({x \in DOMAIN H.obj : H.obj[x].st = "unalloc"})
        c == Min({x \in DOMAIN H.cell : H.cell[x].st = "unalloc"})
    IN  [ret |-> SharedRec(o, c), heap |-> NewCell(NewObj(H, o, t), c)]

\* addComponent(arg) run on the entity e of the heap
EntityAdd(H, e, arg) ==
    LET r == PushComponent(H, arg)
    IN  [r.heap EXCEPT !.members[e] = Append(@, r.ret)]

\* Actor::Actor(name) that appends the transform before the shape
ActorCtorSwapped(H, a) ==
    LET transform == MakeSharedIn(H, "Transform")
        H1 == EntityAdd(transform.heap, a, transform.ret)
        shape == MakeSharedIn(H1, "CShape")
        H2 == EntityAdd(shape.heap, a, shape.ret)
        H3 == Release(H2, shape.ret.ptr, shape.ret.rc, 0)
    IN  Release(H3, transform.ret.ptr, transform.ret.rc, 0)

\* Actor::Actor(name) run on the new object a: the locals `shape` and
\* `transform` are destroyed, last first, when the constructor returns.
ActorCtor(H, a) ==
    LET shape == MakeSharedIn(H, "CShape")
        H1 == EntityAdd(shape.heap, a, shape.ret)
        transform == MakeSharedIn(H1, "Transform")
        H2 == EntityAdd(transform.heap, a, transform.ret)
        H3 == Release(H2, transform.ret.ptr, transform.ret.rc, 0)
    IN  Release(H3, shape.ret.ptr, shape.ret.rc, 0)

\* h = MakeShared<Actor>(name): new Actor(name), then the count of the handle
MakeActor(h) ==
    /\ Running
    /\ IsNext(h, FreeHandles)
    /\ Cardinality(FreeObjs) >= 3 /\ Cardinality(FreeCells) >= 3
    /\ LET a == Min(FreeObjs)
           H1 == ActorCtor(NewObj(Heap, a, "Actor"), a)
           c == Min({x \in DOMAIN H1.cell : H1.cell[x].st = "unalloc"})
       IN  /\ sh' = [sh EXCEPT ![h] = SharedRec(a, c)]
           /\ Apply(NewCell(H1, c), "makeActor", h, 0)
    /\ UNCHANGED <<wk, uq, raws, components, instance, statics, data, app>>

\* r-> reaches an Actor: r has a target that is a live Actor
IsActor(r) ==
    /\ r.live /\ r.ptr # 0
    /\ obj[r.ptr].st = "live" /\ obj[r.ptr].type = "Actor"

\* sh[s]->addComponent(sh[h])
ActorAddComponent(s, h) ==
    /\ Running
    /\ IsActor(sh[s])
    /\ sh[h].live
    /\ sh[h].ptr # 0 => obj[sh[h].ptr].st = "live" /\ obj[sh[h].ptr].type \in ObjTypes
    /\ Len(members[sh[s].ptr]) <= MaxComponents
    /\ Apply(EntityAdd(Heap, sh[s].ptr, sh[h]), "actorAdd", s, h)
    /\ UNCHANGED <<sh, wk, uq, raws, components, instance, statics, data, app>>

\* h = sh[s]->getComponent<U>()
ActorGetComponent(h, s, U) ==
    /\ Running
    /\ IsNext(h, FreeHandles) /\ IsActor(sh[s])
    /\ LET r == GetComponentFrom(Heap, members[sh[s].ptr], 1, U)
       IN  /\ sh' = [sh EXCEPT ![h] = r.ret]
           /\ ApplyArg(r.heap, "actorGet", h, s, U)
    /\ UNCHANGED <<wk, uq, raws, components, instance, statics, data, app>>

\* sh[s]->getComponent<U>() as a temporary: the returned handle is destroyed
\* at the end of the statement that made it
ActorGetDropped(s, U) ==
    /\ Running
    /\ IsActor(sh[s])
    /\ LET r == GetComponentFrom(Heap, members[sh[s].ptr], 1, U)
       IN  Apply(Release(r.heap, r.ret.ptr, r.ret.rc, 0), "actorGetDropped", 0, s)
    /\ UNCHANGED <<sh, wk, uq, raws, components, instance, statics, data, app>>

\* Transform::setPosition / setRotation / setScale through the handle sh[h]
IsTransform(r) ==
    /\ r.live /\ r.ptr # 0
    /\ obj[r.ptr].st = "live" /\ obj[r.ptr].type = "Transform"

TransformSet(h, field, v) ==
    /\ Running
    /\ IsTransform(sh[h])
    /\ data' = [data EXCEPT ![sh[h].ptr][field] = v]
    /\ ApplyArg(Heap, "set", h, 0, field)
    /\ UNCHANGED <<sh, wk, uq, raws, components, instance, statics, app>>

\* sf::Vector2f arithmetic on pairs of integers. Transform::seek is applied
\* through a handle where std::sqrt and the division by the length are exact
\* (the length is a whole number that divides the step) and where `range` is
\* not negative.
Abs(x) == IF x < 0 THEN -x ELSE x
Minus(v, w) == <<v[1] - w[1], v[2] - w[2]>>
Plus(v, w) == <<v[1] + w[1], v[2] + w[2]>>
SquaredLength(v) == v[1] * v[1] + v[2] * v[2]
\* The length of v lies between its larger coordinate and their sum.
Lengths(v) ==
    (IF Abs(v[1]) >= Abs(v[2]) THEN Abs(v[1]) ELSE Abs(v[2]))..(Abs(v[1]) + Abs(v[2]))
HasLength(v) == \E r \in Lengths(v) : r * r = SquaredLength(v)
\* std::sqrt, to whole units
Length(v) ==
    CHOOSE r \in Lengths(v) :
        r * r <= SquaredLength(v) /\ SquaredLength(v) < (r + 1) * (r + 1)

\* x / y to whole units, toward zero
Quot(x, y) == IF x >= 0 THEN x \div y ELSE -((-x) \div y)

\* direction /= lenght; direction * speed * deltaTime. A deltaTime is a
\* fraction <<n, d>> of a second.
Step(direction, lenght, speed, deltaTime) ==
    <<Quot(direction[1] * speed * deltaTime[1], lenght * deltaTime[2]),
      Quot(direction[2] * speed * deltaTime[1], lenght * deltaTime[2])>>

Exact(direction, speed, deltaTime) ==
    /\ HasLength(direction)
    /\ Length(direction) # 0 =>
          \A k \in 1..2 :
             (direction[k] * speed * deltaTime[1])
                % (Length(direction) * deltaTime[2]) = 0

\* The positions the model follows: both coordinates within 0..MaxCoord.
InField(v) == v[1] \in 0..MaxCoord /\ v[2] \in 0..MaxCoord

\* Transform::seek that also moves at a distance equal to range
SeekInclusive(d, targetPosition, speed, deltaTime, range) ==
    LET direction == Minus(targetPosition, d.position)
        lenght == Length(direction)
    IN  IF SquaredLength(direction) >= range * range /\ lenght # 0
        THEN [d EXCEPT !.position =
                 Plus(@, Step(direction, lenght, speed, deltaTime))]
        ELSE d

\* Transform::seek(targetPosition, speed, deltaTime, range) on the fields d;
\* `lenght > range` is decided on the squares, range being not negative.
Seek(d, targetPosition, speed, deltaTime, range) ==
    LET direction == Minus(targetPosition, d.position)
        lenght == Length(direction)
    IN  IF SquaredLength(direction) > range * range
        THEN [d EXCEPT !.position =
                 Plus(@, Step(direction, lenght, speed, deltaTime))]
        ELSE d

\* sh[h]->seek(targetPosition, speed, deltaTime, range)
TransformSeek(h, targetPosition, speed, deltaTime, range) ==
    /\ Running
    /\ IsTransform(sh[h])
    /\ range >= 0
    /\ Exact(Minus(targetPosition, data[sh[h].ptr].position), speed, deltaTime)
    /\ InField(Seek(data[sh[h].ptr], targetPosition, speed, deltaTime, range).position)
    /\ data' = [data EXCEPT ![sh[h].ptr] =
                   Seek(@, targetPosition, speed, deltaTime, range)]
    /\ ApplyArg(Heap, "seek", h, 0,
                [targetPosition |-> targetPosition, speed |-> speed,
                 deltaTime |-> deltaTime, range |-> range])
    /\ UNCHANGED <<sh, wk, uq, raws, components, instance, statics, app>>

\* CShape::setPosition(const sf::Vector2f&), setRotation(float) and
\* setScale(const sf::Vector2f&): the geometry mutators of the shape
\* component. A shape has one angle, kept as the first coordinate.
CShapeSetPosition(d, position) == [d EXCEPT !.position = position]
CShapeSetRotation(d, angle) == [d EXCEPT !.rotation = <<angle, 0>>]
CShapeSetScale(d, scl) == [d EXCEPT !.scale = scl]

\* Actor::update that hands the transform's scale to setPosition
ActorUpdateWrongField(H, D, a) ==
    LET comps == H.members[a]
        transform == GetComponentFrom(H, comps, 1, "Transform")
        shape == GetComponentFrom(transform.heap, comps, 1, "CShape")
        t == transform.ret
        c == shape.ret
    IN  [data |-> IF t.ptr # 0 /\ c.ptr # 0
                  THEN [D EXCEPT ![c.ptr] = CShapeSetPosition(@, D[t.ptr].scale)]
                  ELSE D,
         heap |-> Release(Release(shape.heap, c.ptr, c.rc, 0), t.ptr, t.rc, 0)]

\* Actor::update(deltaTime) on the actor a, with the component fields D: the
\* two handles getComponent returned are destroyed when update returns,
\* `shape` first.
ActorUpdateOn(H, D, a) ==
    LET comps == H.members[a]
        transform == GetComponentFrom(H, comps, 1, "Transform")
        shape == GetComponentFrom(transform.heap, comps, 1, "CShape")
        t == transform.ret
        c == shape.ret
    IN  [data |-> IF t.ptr # 0 /\ c.ptr # 0
                  THEN [D EXCEPT ![c.ptr] =
                           CShapeSetScale(
                             CShapeSetRotation(
                               CShapeSetPosition(@, D[t.ptr].position),
                               D[t.ptr].rotation[1]),
                             D[t.ptr].scale)]
                  ELSE D,
         heap |-> Release(Release(shape.heap, c.ptr, c.rc, 0), t.ptr, t.rc, 0)]

\* sh[s]->update(deltaTime)
ActorUpdate(s) ==
    /\ Running
    /\ IsActor(sh[s])
    /\ LET r == ActorUpdateOn(Heap, data, sh[s].ptr)
       IN  /\ data' = r.data
           /\ Apply(r.heap, "update", s, 0)
    /\ UNCHANGED <<sh, wk, uq, raws, components, instance, statics, app>>

\* The loop of Actor::render that keeps every handle the cast returned
RECURSIVE RenderKeep(_, _, _)
RenderKeep(H, comps, i) ==
    IF i > Len(comps) THEN H
    ELSE RenderKeep(DynamicPointerCast(H, comps[i], "CShape", FALSE).heap,
                    comps, i + 1)

\* The loop of Actor::render from the i-th component on: the handle
\* components[i].dynamic_pointer_cast<CShape>() is destroyed at the end of its
\* iteration; CShape::render draws and keeps no handle.
RECURSIVE RenderFrom(_, _, _)
RenderFrom(H, comps, i) ==
    IF i > Len(comps) THEN H
    ELSE LET shape == DynamicPointerCast(H, comps[i], "CShape", FALSE)
         IN  RenderFrom(Release(shape.heap, shape.ret.ptr, shape.ret.rc, 0),
                        comps, i + 1)

\* sh[s]->render(window)
ActorRender(s) ==
    /\ Running
    /\ IsActor(sh[s])
    /\ Apply(RenderFrom(Heap, members[sh[s].ptr], 1), "render", s, 0)
    /\ UNCHANGED <<sh, wk, uq, raws, components, instance, statics, data, app>>

\* ------------------------------------------------------------------ BaseApp
\* BaseApp.cpp holds two definitions of each member function; def says which
\* one the build has.
Waypoints == <<<<400, 150>>, <<700, 300>>, <<1000, 150>>, <<1200, 500>>>>

\* The first free address of each kind, as `new` hands them out
FreeObj(H) == Min({x \in DOMAIN H.obj : H.obj[x].st = "unalloc"})
FreeCell(H) == Min({x \in DOMAIN H.cell : H.cell[x].st = "unalloc"})

\* A handle returned by a call and destroyed at the end of the block
DropHandle(r) == [ret |-> r.ret, heap |-> Release(r.heap, r.ret.ptr, r.ret.rc, 0)]

\* MakeShared<Actor>(name): new Actor(name), then the handle's count
WithCount(H, a) ==
    [ret |-> SharedRec(a, FreeCell(H)), heap |-> NewCell(H, FreeCell(H))]

MakeActorIn(H) ==
    WithCount(ActorCtor(NewObj(H, FreeObj(H), "Actor"), FreeObj(H)), FreeObj(H))

\* init(), the block `if (m_ACircle)` once getComponent<CShape>() has
\* returned `shape`: the transform is fetched and placed at (100, 150), both
\* handles are dropped at the end of the block
AppInitTransform(shape, D, A) ==
    LET transform == GetComponentFrom(shape.heap,
                         shape.heap.members[A.m_ACircle.ptr], 1, "Transform")
    IN  [ret |-> TRUE,
         heap |-> Release(DropHandle(transform).heap, shape.ret.ptr, shape.ret.rc, 0),
         data |-> IF transform.ret.ptr # 0
                  THEN [D EXCEPT ![transform.ret.ptr].position = <<100, 150>>]
                  ELSE D,
         app |-> A]

\* init(), `m_ACircle = actor` for the handle MakeShared<Actor>("Circle
\* Actor") returned; the second definition also fills m_waypoints
AppInitComponents(actor, D, A, d) ==
    AppInitTransform(
        GetComponentFrom(actor.heap, actor.heap.members[actor.ret.ptr], 1, "CShape"),
        D,
        [A EXCEPT !.m_ACircle = actor.ret,
                  !.m_waypoints = IF d = 2 THEN Waypoints ELSE <<>>])

\* BaseApp::init() of definition d. `ok` says whether new Window(...) gave an
\* object: with a null pointer MakeShared builds a handle with no target (and
\* a count), `!m_windowPtr` holds and init returns false. Otherwise m_shapePtr
\* is made and placed at (200, 150), then the actor.
\* CShape::createShape and setFillColor leave the fields of the model alone.
AppInit(H, D, A, d, ok) ==
    IF ~ok
    THEN [ret |-> FALSE, heap |-> NewCell(H, FreeCell(H)), data |-> D,
          app |-> [A EXCEPT !.m_windowPtr = SharedRec(0, FreeCell(H))]]
    ELSE LET window == MakeSharedIn(H, "Window")
             shapePtr == MakeSharedIn(window.heap, "CShape")
         IN  AppInitComponents(MakeActorIn(shapePtr.heap),
                 [D EXCEPT ![shapePtr.ret.ptr] = CShapeSetPosition(@, <<200, 150>>)],
                 [A EXCEPT !.m_windowPtr = window.ret,
                           !.m_shapePtr = shapePtr.ret,
                           !.open = TRUE],
                 d)

\* run() up to its loop: `if (!init()) { ERROR(...); return -1; }` in the
\* first definition, `if (!init()) { ERROR(...); }` in the second.
AppRunAfter(r, d) ==
    /\ app' = [r.app EXCEPT
                 !.def = d,
                 !.initOk = r.ret,
                 !.reported = IF r.ret THEN 0 ELSE 1,
                 !.pc = IF r.ret \/ d = 2 THEN "loop" ELSE "done",
                 !.result = IF ~r.ret /\ d = 1 THEN -1 ELSE @]
    /\ data' = r.data
    /\ Apply(r.heap, "run", 0, 0)

AppRun(d, ok) ==
    /\ Running
    /\ app.pc = "idle"
    /\ AppRunAfter(AppInit(Heap, data, app, d, ok), d)
    /\ UNCHANGED <<sh, wk, uq, raws, components, instance, statics>>

\* What `m_windowPtr->isOpen()` can do: on a null m_windowPtr the call is
\* undefined and may crash or answer either way.
IsOpenOutcomes ==
    IF app.m_windowPtr.ptr = 0 THEN {"crash", "open", "closed"}
    ELSE IF app.open THEN {"open"} ELSE {"closed"}

\* while (m_windowPtr->isOpen()); after the loop destroy() and return 0
AppLoopTest(isOpen) ==
    /\ Running
    /\ app.pc = "loop"
    /\ isOpen \in IsOpenOutcomes
    /\ app' = [app EXCEPT
                 !.derefNull = @ \/ app.m_windowPtr.ptr = 0,
                 !.pc = CASE isOpen = "crash" -> "crashed"
                          [] isOpen = "open" -> "events"
                          [] OTHER -> "done",
                 !.calls = IF isOpen = "closed" THEN @ \cup {"destroy"} ELSE @,
                 !.result = IF isOpen = "closed" THEN 0 ELSE @]
    /\ Apply(Heap, "isOpen", 0, 0)
    /\ UNCHANGED <<sh, wk, uq, raws, components, instance, statics, data>>

\* m_windowPtr->handleEvents(): the user may close the window
AppHandleEvents(close) ==
    /\ Running
    /\ app.pc = "events"
    /\ app' = [app EXCEPT
                 !.derefNull = @ \/ app.m_windowPtr.ptr = 0,
                 !.calls = @ \cup {"handleEvents"},
                 !.open = @ /\ ~close,
                 !.pc = "update"]
    /\ Apply(Heap, "handleEvents", 0, 0)
    /\ UNCHANGED <<sh, wk, uq, raws, components, instance, statics, data>>

\* m_ACircle->getComponent<Transform>()->seek(waypoint, 200, deltaTime, 10)
\* on the temporary handle t
SeekWaypoint(t, D, A, deltaTime) ==
    [heap |-> t.heap,
     data |-> [D EXCEPT ![t.ret.ptr] =
                  Seek(@, A.m_waypoints[A.m_currentWaypointIndex + 1],
                       200, deltaTime, 10)],
     app |-> A]

\* `if (distance < 10.0f)` on the position read through the temporary handle
\* t: the waypoint after the current one when the actor is nearer than 10
AdvanceWaypoint(t, D, A, deltaTime) ==
    SeekWaypoint(
        DropHandle(GetComponentFrom(t.heap, t.heap.members[A.m_ACircle.ptr], 1,
                                    "Transform")),
        D,
        [A EXCEPT !.m_currentWaypointIndex =
            IF SquaredLength(Minus(A.m_waypoints[@ + 1], D[t.ret.ptr].position))
                  < 10 * 10
            THEN (@ + 1) % Len(A.m_waypoints)
            ELSE @],
        deltaTime)

\* update() of lines 165-191 on the state (H, D, A), deltaTime being the
\* frame time Window::update measured: m_ACircle->update, then the waypoint
\* test, then seek toward the waypoint
FollowWaypoints(H, D, A, deltaTime) ==
    LET u == ActorUpdateOn(H, D, A.m_ACircle.ptr)
    IN  AdvanceWaypoint(
            DropHandle(GetComponentFrom(u.heap, u.heap.members[A.m_ACircle.ptr], 1,
                                        "Transform")),
            u.data, A, deltaTime)

\* update(): `if (!m_ACircle.isNull()) m_ACircle->update(0);` in the first
\* definition, the waypoint loop in the second
AppUpdate(deltaTime) ==
    /\ Running
    /\ app.pc = "update"
    /\ LET A == [app EXCEPT !.calls = @ \cup {"update"}, !.pc = "render",
                            !.deltaTime = IF app.m_windowPtr.ptr # 0
                                          THEN deltaTime ELSE @]
           r == IF app.m_ACircle.ptr = 0
                THEN [heap |-> Heap, data |-> data, app |-> A]
                ELSE IF app.def = 1
                THEN LET u == ActorUpdateOn(Heap, data, app.m_ACircle.ptr)
                     IN  [heap |-> u.heap, data |-> u.data, app |-> A]
                ELSE IF app.m_waypoints = <<>>
                THEN [heap |-> Heap, data |-> data, app |-> A]
                ELSE FollowWaypoints(Heap, data, A, deltaTime)
       IN  /\ app' = r.app
           /\ data' = r.data
           /\ Apply(r.heap, "appUpdate", 0, 0)
    /\ UNCHANGED <<sh, wk, uq, raws, components, instance, statics>>

\* render(): nothing without a window; else clear, m_shapePtr->render,
\* m_ACircle->render, display
AppRender ==
    /\ Running
    /\ app.pc = "render"
    /\ app' = [app EXCEPT !.calls = @ \cup {"render"}, !.pc = "loop"]
    /\ Apply(IF app.m_windowPtr.ptr # 0 /\ app.m_ACircle.ptr # 0
             THEN RenderFrom(Heap, members[app.m_ACircle.ptr], 1)
             ELSE Heap,
             "appRender", 0, 0)
    /\ UNCHANGED <<sh, wk, uq, raws, components, instance, statics, data>>

\* ~BaseApp() once run() has returned: the members are destroyed, last first
AppDestructor ==
    /\ Running
    /\ app.pc = "done"
    /\ LET H1 == Release(Heap, app.m_ACircle.ptr, app.m_ACircle.rc, 0)
           H2 == Release(H1, app.m_shapePtr.ptr, app.m_shapePtr.rc, 0)
           H3 == Release(H2, app.m_windowPtr.ptr, app.m_windowPtr.rc, 0)
       IN  /\ app' = [app EXCEPT !.pc = "ended",
                                 !.m_waypoints = <<>>,
                                 !.m_ACircle = SharedRec(0, 0),
                                 !.m_shapePtr = SharedRec(0, 0),
                                 !.m_windowPtr = SharedRec(0, 0)]
           /\ Apply(H3, "appDestructor", 0, 0)
    /\ UNCHANGED <<sh, wk, uq, raws, components, instance, statics, data>>

\* ------------------------------------------------- handles stored in targets
\* TSharedPointer<T> puts no limit on T: the target may itself store a handle,
\* as in `struct Node { TSharedPointer<Node> next; };`. members[o] = <<next>>
\* for a Node o.
IsNode(r) ==
    /\ r.live /\ r.ptr # 0
    /\ obj[r.ptr].st = "live" /\ obj[r.ptr].type = "Node"

\* The heap H once freed storage has been read or written
Touch(H, freed) == [H EXCEPT !.uaf = @ \/ freed]

\* ptr = ...; refCount = ...; on the handle stored in the object o: lost when
\* o has been destroyed
StoreNext(H, o, r) ==
    IF H.obj[o].st = "live" THEN [H EXCEPT !.members[o] = <<r>>] ELSE Touch(H, TRUE)

\* h = MakeShared<Node>(): the node's next is default-constructed
NodeNew(h) ==
    /\ Running
    /\ IsNext(h, FreeHandles)
    /\ FreeObjs # {} /\ FreeCells # {}
    /\ sh' = [sh EXCEPT ![h] = SharedRec(Min(FreeObjs), Min(FreeCells))]
    /\ Apply([NewCell(NewObj(Heap, Min(FreeObjs), "Node"), Min(FreeCells))
                 EXCEPT !.members[Min(FreeObjs)] = <<SharedRec(0, 0)>>],
             "nodeNew", h, 0)
    /\ UNCHANGED <<wk, uq, raws, components, instance, statics, data, app>>

\* sh[h]->next = sh[s]: operator=(const TSharedPointer<T>&) on the handle
\* stored in the target of sh[h]
NodeSetNext(h, s, g) ==
    /\ Running
    /\ IsNode(sh[h]) /\ sh[s].live
    /\ Apply(IncCount(StoreNext(Release(Heap, members[sh[h].ptr][1].ptr,
                                         members[sh[h].ptr][1].rc, g),
                                 sh[h].ptr, SharedRec(sh[s].ptr, sh[s].rc)),
                       sh[s].rc),
             "setNext", h, s)
    /\ UNCHANGED <<sh, wk, uq, raws, components, instance, statics, data, app>>

\* What `other.ptr` and `other.refCount` yield after release(), `other` being
\* the handle stored in the object o: its fields while o lives; once o has
\* been destroyed the read is one of freed storage, which holds the nulls
\* that release() wrote in other's destructor or, those stores being dead,
\* the values from before (H0 is the heap before release(), H1 the one after)
NestedReads(H0, H1, o) ==
    IF H1.obj[o].st = "live" THEN {H1.members[o][1]}
    ELSE {SharedRec(0, 0), H0.members[o][1]}

\* sh[h] = sh[s]->next: operator=(const TSharedPointer<T>& other) with
\* other stored in the target of sh[s]
SharedCopyAssignNested(h, s, g) ==
    /\ Running
    /\ sh[h].live /\ IsNode(sh[s])
    /\ \E other \in NestedReads(Heap, Release(Heap, sh[h].ptr, sh[h].rc, g), sh[s].ptr) :
          /\ sh' = [sh EXCEPT ![h] = SharedRec(other.ptr, other.rc)]
          /\ ApplyArg(Touch(IncCount(Release(Heap, sh[h].ptr, sh[h].rc, g), other.rc),
                            Release(Heap, sh[h].ptr, sh[h].rc, g).obj[sh[s].ptr].st # "live"),
                      "copyAssign", h, s, "next")
    /\ UNCHANGED <<wk, uq, raws, components, instance, statics, data, app>>

\* sh[h] = std::move(sh[s]->next): operator=(TSharedPointer<T>&& other);
\* other's fields are nulled, a write to freed storage when the object that
\* stores other has been destroyed
SharedMoveAssignNested(h, s, g) ==
    /\ Running
    /\ sh[h].live /\ IsNode(sh[s])
    /\ \E other \in NestedReads(Heap, Release(Heap, sh[h].ptr, sh[h].rc, g), sh[s].ptr) :
          /\ sh' = [sh EXCEPT ![h] = SharedRec(other.ptr, other.rc)]
          /\ ApplyArg(StoreNext(Release(Heap, sh[h].ptr, sh[h].rc, g), sh[s].ptr,
                                SharedRec(0, 0)),
                      "moveAssign", h, s, "next")
    /\ UNCHANGED <<wk, uq, raws, components, instance, statics, data, app>>

\* ------------------------------------------------------------ specification
Init ==
    /\ obj = [o \in Objs |-> [st |-> "unalloc", type |-> "none", frees |-> 0]]
    /\ cell = [c \in Cells |-> [st |-> "unalloc", val |-> 0, frees |-> 0]]
    /\ sh = [h \in Handles |-> NoSharedRec]
    /\ wk = [w \in Weaks |-> NoSharedRec]
    /\ uq = [u \in Uniques |-> NoUniqueRec]
    /\ raws = {}
    /\ components = <<>>
    /\ instance = 0
    /\ statics = 0
    /\ members = [o \in DOMAIN obj |-> <<>>]
    /\ data = [o \in DOMAIN obj |-> NoData]
    /\ app = NoApp
    /\ last = NoOp

NextShared ==
    \/ \E h \in Handles : SharedDefault(h)
    \/ \E h \in Handles, t \in ObjTypes : SharedFromRaw(h, t)
    \/ \E h \in Handles : SharedFromNull(h)
    \/ \E h \in Handles, t \in ObjTypes \cup {"null"} : SharedFromRawCount(h, t)
    \/ \E h, s \in Handles : SharedCopy(h, s)
    \/ \E h, s \in Handles : SharedCopyFrom(h, s)
    \/ \E h, s \in Handles : SharedMove(h, s)
    \/ \E h, s \in Handles : \E g \in Garbage(sh[h]) : SharedCopyAssign(h, s, g)
    \/ \E h, s \in Handles : \E g \in Garbage(sh[h]) : SharedMoveAssign(h, s, g)
    \/ \E h \in Handles : \E g \in Garbage(sh[h]) : SharedDestroy(h, g)
    \/ \E h, s \in Handles : SharedSwap(h, s)
    \/ \E h \in Handles, t \in ObjTypes : \E g \in Garbage(sh[h]) : SharedReset(h, t, g)
    \/ \E h \in Handles : \E g \in Garbage(sh[h]) : SharedResetNull(h, g)
    \/ \E h, s \in Handles, U \in CastTypes : \E ub \in CastUB(sh[s]) :
          SharedCast(h, s, U, ub)

NextWeak ==
    \/ \E w \in Weaks : WeakDefault(w)
    \/ \E w \in Weaks, s \in Handles : WeakFromShared(w, s)
    \/ \E w \in Weaks : WeakDestroy(w)
    \/ \E h \in Handles, w \in Weaks : \E g \in Garbage(wk[w]) : WeakLock(h, w, g)

Next == NextShared \/ NextWeak

\* Every operation of TSharedPointer and TWeakPointer.
Spec == Init /\ [][Next]_vars

\* The operations of TSharedPointer alone: no handle ever observes a group
\* that has been freed.
SpecShared == Init /\ [][NextShared]_vars

\* The handles a weak pointer observes are built, copied and destroyed.
NextOwners ==
    \/ \E h \in Handles, t \in ObjTypes : SharedFromRaw(h, t)
    \/ \E h \in Handles : SharedFromNull(h)
    \/ \E h, s \in Handles : SharedCopy(h, s)
    \/ \E h \in Handles : \E g \in Garbage(sh[h]) : SharedDestroy(h, g)

\* Every operation of TWeakPointer, on handles that are built, copied and
\* destroyed.
SpecWeak == Init /\ [][NextOwners \/ NextWeak]_vars

\* Handles that own what MakeShared built, MaxGroups groups in all: copied,
\* moved, assigned, swapped, reset and destroyed.
GroupIds == 1..MaxGroups

InitGroups ==
    /\ obj = [o \in GroupIds |-> [st |-> "unalloc", type |-> "none", frees |-> 0]]
    /\ cell = [c \in GroupIds |-> [st |-> "unalloc", val |-> 0, frees |-> 0]]
    /\ sh = [h \in Handles |-> NoSharedRec]
    /\ wk = [w \in Weaks |-> NoSharedRec]
    /\ uq = [u \in Uniques |-> NoUniqueRec]
    /\ raws = {}
    /\ components = <<>>
    /\ instance = 0
    /\ statics = 0
    /\ members = [o \in DOMAIN obj |-> <<>>]
    /\ data = [o \in DOMAIN obj |-> NoData]
    /\ app = NoApp
    /\ last = NoOp

NextGroups ==
    \/ \E h \in Handles : SharedDefault(h)
    \/ \E h \in Handles, t \in ObjTypes : SharedFromRaw(h, t)
    \/ \E h, s \in Handles : SharedCopy(h, s)
    \/ \E h, s \in Handles : SharedMove(h, s)
    \/ \E h, s \in Handles : \E g \in Garbage(sh[h]) : SharedCopyAssign(h, s, g)
    \/ \E h, s \in Handles : \E g \in Garbage(sh[h]) : SharedMoveAssign(h, s, g)
    \/ \E h \in Handles : \E g \in Garbage(sh[h]) : SharedDestroy(h, g)
    \/ \E h, s \in Handles : SharedSwap(h, s)
    \/ \E h \in Handles, t \in ObjTypes : \E g \in Garbage(sh[h]) : SharedReset(h, t, g)
    \/ \E h \in Handles : \E g \in Garbage(sh[h]) : SharedResetNull(h, g)

SpecGroups == InitGroups /\ [][NextGroups]_vars

\* An entity, the handles of its caller and the components they make.
EntityObjs == 1..MaxComponents

InitEntity ==
    /\ obj = [o \in EntityObjs |-> [st |-> "unalloc", type |-> "none", frees |-> 0]]
    /\ cell = [c \in EntityObjs |-> [st |-> "unalloc", val |-> 0, frees |-> 0]]
    /\ sh = [h \in Handles |-> NoSharedRec]
    /\ wk = [w \in Weaks |-> NoSharedRec]
    /\ uq = [u \in Uniques |-> NoUniqueRec]
    /\ raws = {}
    /\ components = <<>>
    /\ instance = 0
    /\ statics = 0
    /\ members = [o \in DOMAIN obj |-> <<>>]
    /\ data = [o \in DOMAIN obj |-> NoData]
    /\ app = NoApp
    /\ last = NoOp

NextEntity ==
    \/ \E h \in Handles : SharedDefault(h)
    \/ \E h \in Handles, t \in ObjTypes : SharedFromRaw(h, t)
    \/ \E h \in Handles : \E g \in Garbage(sh[h]) : SharedDestroy(h, g)
    \/ \E h \in Handles : AddComponent(h)
    \/ \E h \in Handles, U \in CastTypes : GetComponent(h, U)

SpecEntity == InitEntity /\ [][NextEntity]_vars

UniqueObjs == 1..MaxUniqueObj

InitUnique ==
    /\ obj = [o \in UniqueObjs |-> [st |-> "unalloc", type |-> "none", frees |-> 0]]
    /\ cell = [c \in Cells |-> [st |-> "unalloc", val |-> 0, frees |-> 0]]
    /\ sh = [h \in Handles |-> NoSharedRec]
    /\ wk = [w \in Weaks |-> NoSharedRec]
    /\ uq = [u \in Uniques |-> NoUniqueRec]
    /\ raws = {}
    /\ components = <<>>
    /\ instance = 0
    /\ statics = 0
    /\ members = [o \in DOMAIN obj |-> <<>>]
    /\ data = [o \in DOMAIN obj |-> NoData]
    /\ app = NoApp
    /\ last = NoOp

\* Ownership passes from handle to handle or back to the caller.
NextUniqueOwn ==
    \/ \E u \in Uniques : UniqueDefault(u)
    \/ \E u \in Uniques, t \in ObjTypes : UniqueFromRaw(u, t)
    \/ \E u, s \in Uniques : UniqueMove(u, s)
    \/ \E u, s \in Uniques : UniqueMoveFrom(u, s)
    \/ \E u, s \in Uniques : UniqueMoveAssign(u, s)
    \/ \E u \in Uniques : UniqueDestroy(u)
    \/ \E u \in Uniques : UniqueRelease(u)

\* The caller also reads raw pointers and hands raw pointers in.
NextUniqueRaw ==
    \/ \E u \in Uniques, p \in UniqueObjs : UniqueAdopt(u, p)
    \/ \E u \in Uniques : UniqueGet(u)
    \/ \E u \in Uniques, t \in ObjTypes : UniqueReset(u, t)
    \/ \E u \in Uniques, p \in UniqueObjs \cup {0} : UniqueResetTo(u, p)

\* Every operation of TUniquePtr.
SpecUnique == InitUnique /\ [][NextUniqueOwn \/ NextUniqueRaw]_vars

\* Construction from a new object, moves, release() and destruction only.
SpecUniqueOwn == InitUnique /\ [][NextUniqueOwn]_vars

StaticObjs == 1..MaxStaticObj

InitStatic ==
    /\ obj = [o \in StaticObjs |-> [st |-> "unalloc", type |-> "none", frees |-> 0]]
    /\ cell = [c \in Cells |-> [st |-> "unalloc", val |-> 0, frees |-> 0]]
    /\ sh = [h \in Handles |-> NoSharedRec]
    /\ wk = [w \in Weaks |-> NoSharedRec]
    /\ uq = [u \in Uniques |-> NoUniqueRec]
    /\ raws = {}
    /\ components = <<>>
    /\ instance = 0
    /\ statics = 0
    /\ members = [o \in DOMAIN obj |-> <<>>]
    /\ data = [o \in DOMAIN obj |-> NoData]
    /\ app = NoApp
    /\ last = NoOp

\* The slot is given new objects only.
NextStaticOwn ==
    \/ StaticDefault
    \/ \E t \in ObjTypes : StaticFromRaw(t)
    \/ StaticDestroy
    \/ StaticGet
    \/ \E t \in ObjTypes : StaticReset(t)
    \/ StaticResetTo(0)

\* The caller also hands back pointers read with get().
NextStaticRaw ==
    \/ \E p \in StaticObjs : StaticAdopt(p)
    \/ \E p \in StaticObjs : StaticResetTo(p)

\* Every operation of TStaticPtr<T>.
SpecStatic == InitStatic /\ [][NextStaticOwn \/ NextStaticRaw]_vars

\* Construction, reset and destruction with new objects or nullptr.
SpecStaticOwn == InitStatic /\ [][NextStaticOwn]_vars

\* An actor made by MakeShared<Actor>, the handles of its caller and one more
\* component the caller makes.
MaxActorObj == 4
ActorObjs == 1..MaxActorObj

InitActor ==
    /\ obj = [o \in ActorObjs |-> [st |-> "unalloc", type |-> "none", frees |-> 0]]
    /\ cell = [c \in ActorObjs |-> [st |-> "unalloc", val |-> 0, frees |-> 0]]
    /\ sh = [h \in Handles |-> NoSharedRec]
    /\ wk = [w \in Weaks |-> NoSharedRec]
    /\ uq = [u \in Uniques |-> NoUniqueRec]
    /\ raws = {}
    /\ components = <<>>
    /\ instance = 0
    /\ statics = 0
    /\ members = [o \in DOMAIN obj |-> <<>>]
    /\ data = [o \in DOMAIN obj |-> NoData]
    /\ app = NoApp
    /\ last = NoOp

NextActor ==
    \/ \E h \in Handles : MakeActor(h)
    \/ \E h \in Handles, t \in ObjTypes : SharedFromRaw(h, t)
    \/ \E h, s \in Handles : SharedCopy(h, s)
    \/ \E h \in Handles : \E g \in Garbage(sh[h]) : SharedDestroy(h, g)
    \/ \E s, h \in Handles : ActorAddComponent(s, h)
    \/ \E h, s \in Handles, U \in CastTypes : ActorGetComponent(h, s, U)
    \/ \E s \in Handles : ActorUpdate(s)
    \/ \E s \in Handles : ActorRender(s)
    \/ \E s \in Handles, U \in CastTypes : ActorGetDropped(s, U)

SpecActor == InitActor /\ [][NextActor]_vars

\* The actor with the values its caller gives to the transform.
Vectors == {<<100, 150>>, <<2, 3>>}

NextActorData ==
    \/ \E h \in Handles : MakeActor(h)
    \/ \E h, s \in Handles, U \in ObjTypes : ActorGetComponent(h, s, U)
    \/ \E h \in Handles : \E g \in Garbage(sh[h]) : SharedDestroy(h, g)
    \/ \E h \in Handles, f \in {"position", "rotation", "scale"}, v \in Vectors :
          TransformSet(h, f, v)
    \/ \E s \in Handles : ActorUpdate(s)

SpecActorData == InitActor /\ [][NextActorData]_vars

\* A transform its caller places and then moves with seek.
SeekPositions == {<<0, 0>>, <<95, 0>>, <<90, 0>>, <<100, 0>>, <<30, 40>>}

InitSeek ==
    /\ obj = [o \in {1} |-> [st |-> "live", type |-> "Transform", frees |-> 0]]
    /\ cell = [c \in {1} |-> [st |-> "live", val |-> 1, frees |-> 0]]
    /\ sh = [h \in Handles |-> IF h = 1 THEN SharedRec(1, 1) ELSE NoSharedRec]
    /\ wk = [w \in Weaks |-> NoSharedRec]
    /\ uq = [u \in Uniques |-> NoUniqueRec]
    /\ raws = {}
    /\ components = <<>>
    /\ instance = 0
    /\ statics = 0
    /\ members = [o \in DOMAIN obj |-> <<>>]
    /\ data = [o \in DOMAIN obj |-> NoData]
    /\ app = NoApp
    /\ last = NoOp

NextSeek ==
    \/ \E v \in SeekPositions : TransformSet(1, "position", v)
    \/ TransformSet(1, "rotation", <<90, 0>>)
    \/ TransformSet(1, "scale", <<2, 2>>)
    \/ \E t \in SeekPositions, s \in {25, 50},
          dt \in {<<0, 1>>, <<1, 1>>, <<1, 2>>}, r \in {0, 10} :
          TransformSeek(1, t, s, dt, r)

SpecSeek == InitSeek /\ [][NextSeek]_vars

\* One BaseApp, run once: the window, the shape, the actor and its two
\* components.
FrameTimes == {<<0, 1>>, <<1, 4>>}

InitApp ==
    /\ obj = [o \in 1..5 |-> [st |-> "unalloc", type |-> "none", frees |-> 0]]
    /\ cell = [c \in 1..5 |-> [st |-> "unalloc", val |-> 0, frees |-> 0]]
    /\ sh = [h \in Handles |-> NoSharedRec]
    /\ wk = [w \in Weaks |-> NoSharedRec]
    /\ uq = [u \in Uniques |-> NoUniqueRec]
    /\ raws = {}
    /\ components = <<>>
    /\ instance = 0
    /\ statics = 0
    /\ members = [o \in DOMAIN obj |-> <<>>]
    /\ data = [o \in DOMAIN obj |-> NoData]
    /\ app = NoApp
    /\ last = NoOp

NextApp ==
    \/ \E d \in {1, 2}, ok \in BOOLEAN : AppRun(d, ok)
    \/ \E isOpen \in {"crash", "open", "closed"} : AppLoopTest(isOpen)
    \/ \E close \in BOOLEAN : AppHandleEvents(close)
    \/ \E dt \in FrameTimes : AppUpdate(dt)
    \/ AppRender
    \/ AppDestructor

SpecApp == InitApp /\ [][NextApp]_vars

\* The main loop of a BaseApp built with the second definitions, whose init
\* succeeded and whose window stays open: the frames come at a steady rate,
\* each measuring the same positive frame time, and the loop never stops.
NextFrames ==
    \/ AppRun(2, TRUE)
    \/ AppLoopTest("open")
    \/ AppHandleEvents(FALSE)
    \/ \E dt \in {<<1, 4>>, <<1, 20>>} :
          app.deltaTime \in {<<0, 1>>, dt} /\ AppUpdate(dt)
    \/ AppRender

\* The loop goes on: run() does not stay before init() or inside update()
\* for ever, and each other step of the loop is taken once it can be.
SpecFrames ==
    /\ InitApp /\ [][NextFrames]_vars
    /\ []<>(app.pc # "idle") /\ []<>(app.pc # "update")
    /\ WF_vars(AppLoopTest("open"))
    /\ WF_vars(AppHandleEvents(FALSE))
    /\ WF_vars(AppRender)

\* Nodes that store a handle, built with MakeShared, linked and assigned.
NextNested ==
    \/ \E h \in Handles : NodeNew(h)
    \/ \E h, s \in Handles : \E g \in Garbage(sh[h]) : NodeSetNext(h, s, g)
    \/ \E h, s \in Handles : SharedCopy(h, s)
    \/ \E h \in Handles : \E g \in Garbage(sh[h]) : SharedDestroy(h, g)
    \/ \E h, s \in Handles : \E g \in Garbage(sh[h]) : SharedCopyAssign(h, s, g)
    \/ \E h, s \in Handles : \E g \in Garbage(sh[h]) : SharedMoveAssign(h, s, g)
    \/ \E h, s \in Handles : \E g \in Garbage(sh[h]) : SharedCopyAssignNested(h, s, g)
    \/ \E h, s \in Handles : \E g \in Garbage(sh[h]) : SharedMoveAssignNested(h, s, g)

SpecNested == InitGroups /\ [][NextNested]_vars

\* ------------------------------------------------------------------ claims
\* The number of live TSharedPointer instances whose refCount is c, the
\* handles stored in an entity's component list included.
Aliases(c) ==
    Cardinality({h \in Handles : sh[h].live /\ sh[h].rc = c})
    + Cardinality({i \in DOMAIN components : components[i].rc = c})

NoDoubleFree ==
    /\ \A o \in DOMAIN obj : obj[o].frees <= 1
    /\ \A c \in DOMAIN cell : cell[c].frees <= 1

\* C1: the value of every count cell equals the number of live
\* TSharedPointer instances aliasing it, no live handle aliases a group that
\* has been freed (the free happens at the release of the last alias and not
\* before), and no target and no count cell is freed twice.
C1_CountIsAliasCount ==
    /\ \A c \in DOMAIN cell : cell[c].st = "live" => cell[c].val = Aliases(c)
    /\ \A h \in Handles :
          (sh[h].live /\ sh[h].rc # 0) =>
             /\ cell[sh[h].rc].st = "live"
             /\ sh[h].ptr # 0 => obj[sh[h].ptr].st = "live"
    /\ NoDoubleFree

\* C2: lock() on a weak pointer that observed a target returns a non-empty
\* handle if and only if at least one TSharedPointer alias of the observed
\* group was live when it was called; in particular it returns an empty
\* handle once the group has been freed.
C2_LockIffAliasLive ==
    (last.op = "lock" /\ wk[last.src].ptr # 0) =>
       LET c == wk[last.src].rc
           r == sh[last.dst]
           before == Aliases(c) - (IF r.rc = c THEN 1 ELSE 0)
       IN  /\ (r.ptr # 0) <=> (c # 0 /\ before > 0)
           /\ (c # 0 /\ cell[c].st = "freed") => (r.ptr = 0 /\ r.rc = 0)

\* C3: no operation of the handle family reads, writes or frees a target or
\* a count cell that has already been freed, and nothing is freed twice.
C3_NoUseAfterFree == ~last.uaf /\ NoDoubleFree

\* C4: in every live TSharedPointer the count pointer is non-null if and
\* only if the target pointer is non-null.
C4_CountIffTarget ==
    \A h \in Handles : sh[h].live => ((sh[h].rc # 0) <=> (sh[h].ptr # 0))

\* C5: dynamic_pointer_cast<U> on a handle whose live target's runtime type
\* is not U and does not derive from U returns an empty handle and leaves the
\* source handle, every count and every object as they were.
C5_FailedCastChangesNothing ==
    [][LET h == last'.dst
           s == last'.src
       IN  (/\ last'.op = "cast"
            /\ sh[s].ptr # 0
            /\ obj[sh[s].ptr].st = "live"
            /\ ~Derives(obj[sh[s].ptr].type, last'.arg))
           => /\ sh'[h] = SharedRec(0, 0)
              /\ sh'[s] = sh[s]
              /\ cell' = cell
              /\ obj' = obj]_vars

\* A failed cast has just returned: the source still owns a live target in a
\* group, the returned handle is empty.
C5_Witness ==
    /\ last.op = "cast"
    /\ sh[last.src].ptr # 0 /\ sh[last.src].rc # 0
    /\ obj[sh[last.src].ptr].st = "live"
    /\ sh[last.dst] = SharedRec(0, 0)

\* C6: dynamic_pointer_cast<U> on a handle whose live target's runtime type
\* is U or derives from U returns a non-empty handle with the source's target
\* that shares a count cell with the source, and that cell's value is exactly
\* one higher than before.
C6_CastAliasesGroup ==
    [][LET h == last'.dst
           s == last'.src
       IN  (/\ last'.op = "cast"
            /\ sh[s].ptr # 0
            /\ obj[sh[s].ptr].st = "live"
            /\ Derives(obj[sh[s].ptr].type, last'.arg))
           => /\ sh'[h].ptr = sh[s].ptr
              /\ sh'[s] = sh[s]
              /\ sh'[h].rc # 0
              /\ sh'[h].rc = sh[s].rc
              /\ cell'[sh[s].rc].val = cell[sh[s].rc].val + 1]_vars

\* The positions of the attached components whose runtime type is U or
\* derives from U.
Matching(U) ==
    {i \in DOMAIN components :
        /\ components[i].ptr # 0
        /\ Derives(obj[components[i].ptr].type, U)}

\* C7: getComponent<U>() returns a handle to the first attached component, in
\* attachment order, whose runtime type is U or derives from U, and an empty
\* handle when none matches; so with components of both kinds attached, a
\* query by a kind returns the component of that kind, whatever the order.
C7_GetComponentFirstMatch ==
    last.op = "getComponent" =>
       LET r == sh[last.dst]
           M == Matching(last.arg)
       IN  /\ M = {} => r = SharedRec(0, 0)
           /\ M # {} => /\ r.ptr = components[Min(M)].ptr
                        /\ r.rc = components[Min(M)].rc
           /\ (last.arg \in ObjTypes /\ M # {}) => obj[r.ptr].type = last.arg

\* A query by kind has just returned the second of two components of
\* different kinds.
C7_Witness ==
    /\ last.op = "getComponent"
    /\ Len(components) = 2
    /\ components[1].ptr # 0 /\ components[2].ptr # 0
    /\ obj[components[1].ptr].type # obj[components[2].ptr].type
    /\ sh[last.dst].ptr = components[2].ptr
    /\ obj[sh[last.dst].ptr].type = last.arg

\* The live TUniquePtr instances that hold the object o.
Owners(o) == {u \in Uniques : uq[u].live /\ uq[u].ptr = o}

\* C8: move-assignment from a different handle deletes the destination's old
\* target once, gives the destination the source's target and empties the
\* source; move-assigning a handle to itself frees nothing and changes
\* nothing.
C8_MoveAssign ==
    [][last'.op = "uMoveAssign" =>
          LET u == last'.dst
              s == last'.src
              old == uq[u].ptr
          IN  IF u = s
              THEN uq' = uq /\ obj' = obj
              ELSE /\ uq'[u] = UniqueRec(uq[s].ptr)
                   /\ uq'[s] = UniqueRec(0)
                   /\ \A o \in DOMAIN obj :
                         IF o = old
                         THEN /\ obj'[o].st = "freed"
                              /\ obj'[o].frees = obj[o].frees + 1
                         ELSE obj'[o] = obj[o]]_vars

\* A move-assignment between two handles that each owned an object has just
\* returned: the destination's old object is freed once, the destination
\* owns the other object, the source is empty.
C8_Witness ==
    /\ last.op = "uMoveAssign"
    /\ last.dst # last.src
    /\ uq[last.dst].ptr # 0
    /\ obj[uq[last.dst].ptr].st = "live"
    /\ uq[last.src] = UniqueRec(0)
    /\ \E o \in DOMAIN obj : obj[o].st = "freed" /\ obj[o].frees = 1

\* C9: a live object is owned by at most one TUniquePtr.
C9_AtMostOneOwner ==
    \A o \in DOMAIN obj : obj[o].st = "live" => Cardinality(Owners(o)) <= 1

\* Each object is unallocated, or live and owned by exactly one handle, or
\* live and handed back to the caller by release(), or freed exactly once.
OwnedOrReleasedOrFreedOnce ==
    \A o \in DOMAIN obj :
       CASE obj[o].st = "unalloc" -> Owners(o) = {} /\ o \notin raws
         [] obj[o].st = "live" ->
               \/ Cardinality(Owners(o)) = 1 /\ o \notin raws
               \/ Owners(o) = {} /\ o \in raws
         [] obj[o].st = "freed" ->
               obj[o].frees = 1 /\ Owners(o) = {} /\ o \notin raws

\* C10: under moves, release() and destruction an adopted object is freed
\* exactly once, by the destructor or the move-assignment of the handle that
\* owns it then, unless release() handed it back to the caller, and then no
\* handle frees it; destroying an empty (moved-from or released) handle frees
\* nothing.
C10_FreedExactlyOnce ==
    [][/\ OwnedOrReleasedOrFreedOnce'
       /\ \A o \in DOMAIN obj :
             obj'[o].frees > obj[o].frees =>
                /\ last'.op \in {"uDestroy", "uMoveAssign"}
                /\ uq[last'.dst].ptr = o
       /\ last'.op = "uDestroy" =>
             IF uq[last'.dst].ptr = 0
             THEN obj' = obj
             ELSE obj'[uq[last'.dst].ptr].st = "freed"]_vars

\* An empty handle has just been destroyed while one object is with the
\* caller after release() and another has been freed by its owner.
C10_Witness ==
    /\ last.op = "uDestroy"
    /\ \E o \in DOMAIN obj : o \in raws /\ obj[o].st = "live"
    /\ \E o \in DOMAIN obj : obj[o].st = "freed" /\ obj[o].frees = 1

\* C11: when reset(p1) is followed by reset(p2), p1 and p2 different and
\* non-null, then after the second call p1 is freed and has been freed
\* exactly once, it was the slot's content when it was freed, the slot (what
\* get() returns) is p2, and the second call has not freed p2.
C11_ResetTwice ==
    [][(/\ last.op = "sReset" /\ last.dst # 0
        /\ last'.op = "sReset" /\ last'.dst # 0 /\ last'.dst # last.dst)
       => /\ last'.src = last.dst
          /\ obj'[last.dst].st = "freed"
          /\ obj'[last.dst].frees = 1
          /\ instance' = last'.dst
          /\ obj'[last'.dst].frees = obj[last'.dst].frees]_vars

\* C12: a TStaticPtr constructed from a pointer while the slot holds an
\* instance leaves that previous instance freed, freed exactly once, and the
\* slot holding the new pointer; and at any time every live object that was
\* adopted is the slot's instance, so there is at most one and none is leaked.
C12_ConstructReplaces ==
    [][/\ (last'.op \in {"sFromRaw", "sAdopt"} /\ last'.src # 0)
          => /\ obj'[last'.src].st = "freed"
             /\ obj'[last'.src].frees = 1
             /\ instance' = last'.dst
       /\ \A o \in DOMAIN obj : obj'[o].st = "live" => instance' = o]_vars

\* C13: the destructor of any TStaticPtr object, one built by the default
\* constructor included, leaves the slot null and the instance the slot held
\* freed, freed exactly once; a destructor that finds the slot null (as every
\* destructor after the first does) frees nothing.
C13_DestroyClearsSlot ==
    [][last'.op = "sDestroy"
       => /\ instance' = 0
          /\ StaticIsNull'
          /\ IF instance # 0
             THEN /\ obj'[instance].st = "freed"
                  /\ obj'[instance].frees = 1
                  /\ \A o \in DOMAIN obj : o # instance => obj'[o] = obj[o]
             ELSE obj' = obj]_vars

\* C14: constructing a TWeakPointer, empty or from a TSharedPointer, and
\* destroying a TWeakPointer change the value of no count cell and free no
\* target and no count cell: the heap is as it was.
C14_WeakLeavesCounts ==
    [][last'.op \in {"weakDefault", "weakFromShared", "weakDestroy"}
       => cell' = cell /\ obj' = obj]_vars

\* A weak pointer has just been built from a handle of a live group and
\* observes that group, whose count is still 1.
C14_Witness ==
    /\ last.op = "weakFromShared"
    /\ wk[last.dst].rc # 0
    /\ wk[last.dst].rc = sh[last.src].rc
    /\ wk[last.dst].ptr = sh[last.src].ptr
    /\ cell[wk[last.dst].rc].st = "live"
    /\ cell[wk[last.dst].rc].val = 1

\* C15: lock() on a weak pointer that observes a live group with n >= 1 live
\* TSharedPointer aliases returns a handle with the observed target and the
\* observed count cell and leaves that cell's value at n + 1, everything else
\* as it was; lock() on an empty weak pointer returns the empty handle; and
\* a lock() that returns the empty handle changes no count.
C15_LockCountsUp ==
    [][last'.op = "lock" =>
          LET h == last'.dst
              w == last'.src
              c == wk[w].rc
              n == Aliases(c)
          IN  /\ (c # 0 /\ cell[c].st = "live" /\ n >= 1)
                 => /\ sh'[h] = SharedRec(wk[w].ptr, c)
                    /\ cell' = [cell EXCEPT ![c].val = n + 1]
                    /\ obj' = obj
              /\ c = 0 => sh'[h] = SharedRec(0, 0)
              /\ sh'[h] = SharedRec(0, 0) => cell' = cell /\ obj' = obj]_vars

\* lock() has just returned a second alias of a live group: the handle the
\* weak pointer was built from and the returned one share a count of 2.
C15_Witness ==
    /\ last.op = "lock"
    /\ sh[last.dst].rc # 0 /\ sh[last.dst].ptr # 0
    /\ sh[last.dst].rc = wk[last.src].rc
    /\ sh[last.dst].ptr = wk[last.src].ptr
    /\ obj[sh[last.dst].ptr].st = "live"
    /\ cell[sh[last.dst].rc].st = "live"
    /\ cell[sh[last.dst].rc].val = 2
    /\ Aliases(sh[last.dst].rc) = 2

\* The handle d is the last alias of its group: releasing it frees the group.
LastAlias(d) == d.rc # 0 /\ cell[d.rc].val = 1

\* The heap after the handle d has given up its group and the count of the
\* cell `gain` (0 for none) has been raised by `up`: the count of d's group is
\* one lower, or the group's target and cell are freed, once, when d was its
\* last alias; every other object and cell is as it was.
HeapAfterRelease(d, gain, up) ==
    /\ \A c \in DOMAIN cell :
          IF c = d.rc /\ LastAlias(d)
          THEN cell'[c] = [st |-> "freed", val |-> 0, frees |-> 1]
          ELSE cell'[c] = [cell[c] EXCEPT
                              !.val = @ - (IF c = d.rc THEN 1 ELSE 0)
                                        + (IF c = gain THEN up ELSE 0)]
    /\ \A o \in DOMAIN obj :
          IF o = d.ptr /\ LastAlias(d)
          THEN obj'[o].st = "freed" /\ obj'[o].frees = 1
          ELSE obj'[o] = obj[o]

\* C16: copy-assignment and move-assignment from a different handle release
\* the destination's group (count one lower, group freed when it reaches
\* zero), then the destination has the source's target and count; after a
\* copy the source is as it was and its group's count is one higher, after a
\* move the source is empty and its group's count has not been raised.
\* Assigning a handle to itself changes no handle and nothing on the heap.
C16_AssignReleasesThenAliases ==
    [][last'.op \in {"copyAssign", "moveAssign"} =>
          LET h == last'.dst
              s == last'.src
          IN  IF h = s
              THEN sh' = sh /\ cell' = cell /\ obj' = obj
              ELSE /\ sh'[h] = SharedRec(sh[s].ptr, sh[s].rc)
                   /\ \A k \in Handles \ {h, s} : sh'[k] = sh[k]
                   /\ IF last'.op = "copyAssign"
                      THEN /\ sh'[s] = sh[s]
                           /\ HeapAfterRelease(sh[h], sh[s].rc, 1)
                      ELSE /\ sh'[s] = SharedRec(0, 0)
                           /\ HeapAfterRelease(sh[h], sh[s].rc, 0)]_vars

\* A copy-assignment between two handles that each were the only alias of a
\* group has just returned: the destination's old group is freed, the two
\* handles share the other group with a count of 2.
C16_Witness ==
    /\ last.op = "copyAssign"
    /\ last.dst # last.src
    /\ sh[last.dst] = sh[last.src]
    /\ sh[last.dst].rc # 0 /\ sh[last.dst].ptr # 0
    /\ cell[sh[last.dst].rc].st = "live"
    /\ cell[sh[last.dst].rc].val = 2
    /\ \E c \in DOMAIN cell : cell[c].st = "freed" /\ cell[c].frees = 1
    /\ \E o \in DOMAIN obj : obj[o].st = "freed" /\ obj[o].frees = 1

\* C17: move-construction gives the new handle the source's target and count
\* pointer, leaves the source with both fields null and changes no count cell
\* and no object; destroying the moved-from source next changes nothing on
\* the heap.
C17_MoveTransfers ==
    [][/\ last'.op = "move"
          => /\ sh'[last'.dst] = SharedRec(sh[last'.src].ptr, sh[last'.src].rc)
             /\ sh'[last'.src] = SharedRec(0, 0)
             /\ cell' = cell
             /\ obj' = obj
       /\ (last.op = "move" /\ last'.op = "destroy" /\ last'.dst = last.src)
          => cell' = cell /\ obj' = obj]_vars

\* A move-construction from the only alias of a group has just returned: the
\* new handle is the only alias, the count is still 1, the source is empty.
C17_Witness ==
    /\ last.op = "move"
    /\ sh[last.src] = SharedRec(0, 0)
    /\ sh[last.dst].ptr # 0 /\ sh[last.dst].rc # 0
    /\ obj[sh[last.dst].ptr].st = "live"
    /\ cell[sh[last.dst].rc].st = "live"
    /\ cell[sh[last.dst].rc].val = 1
    /\ Aliases(sh[last.dst].rc) = 1

\* C18: reset(newTarget) releases the handle's group (count one lower, or the
\* group's target and cell freed, once, when the handle was its last alias).
\* With a new target the handle then owns it with a count cell allocated by
\* the call, of value 1, that no other handle points to; with no target the
\* handle has both fields null. No other handle, object or cell changes.
C18_ResetReleasesThenOwns ==
    [][last'.op \in {"reset", "resetNull"} =>
          LET h == last'.dst
              n == sh'[h]
          IN  /\ \A k \in Handles \ {h} : sh'[k] = sh[k]
              /\ IF last'.op = "resetNull"
                 THEN /\ n = SharedRec(0, 0)
                      /\ HeapAfterRelease(sh[h], 0, 0)
                 ELSE /\ n.live /\ n.ptr # 0 /\ n.rc # 0
                      /\ obj[n.ptr].st = "unalloc" /\ obj'[n.ptr].st = "live"
                      /\ cell[n.rc].st = "unalloc"
                      /\ cell'[n.rc] = [st |-> "live", val |-> 1, frees |-> 0]
                      /\ \A k \in Handles \ {h} : ~(sh'[k].live /\ sh'[k].rc = n.rc)
                      /\ \A c \in DOMAIN cell \ {n.rc} :
                            IF c = sh[h].rc /\ LastAlias(sh[h])
                            THEN cell'[c] = [st |-> "freed", val |-> 0, frees |-> 1]
                            ELSE cell'[c] = [cell[c] EXCEPT
                                    !.val = @ - (IF c = sh[h].rc THEN 1 ELSE 0)]
                      /\ \A o \in DOMAIN obj \ {n.ptr} :
                            IF o = sh[h].ptr /\ LastAlias(sh[h])
                            THEN obj'[o].st = "freed" /\ obj'[o].frees = 1
                            ELSE obj'[o] = obj[o]]_vars

\* reset(newTarget) has just returned on a handle that was the last alias of
\* its group: the old target and cell are freed once and the handle is the
\* only alias of a new group whose count is 1.
C18_Witness ==
    /\ last.op = "reset"
    /\ sh[last.dst].rc # 0 /\ sh[last.dst].ptr # 0
    /\ cell[sh[last.dst].rc] = [st |-> "live", val |-> 1, frees |-> 0]
    /\ obj[sh[last.dst].ptr].st = "live"
    /\ Aliases(sh[last.dst].rc) = 1
    /\ \E c \in DOMAIN cell : cell[c].st = "freed" /\ cell[c].frees = 1
    /\ \E o \in DOMAIN obj : obj[o].st = "freed" /\ obj[o].frees = 1

\* C19: swap gives each of the two handles the (target, count pointer) pair
\* the other had, changes no other handle, no count cell and no object, for
\* two groups, two aliases of one group, an empty handle and a handle swapped
\* with itself; a second swap of the same two handles as the next step gives
\* back the handles as they were before the first.
C19_SwapExchanges ==
    [][/\ last'.op = "swap"
          => /\ sh'[last'.dst] = sh[last'.src]
             /\ sh'[last'.src] = sh[last'.dst]
             /\ \A k \in Handles \ {last'.dst, last'.src} : sh'[k] = sh[k]
             /\ cell' = cell
             /\ obj' = obj
       /\ (/\ last.op = "swap" /\ last'.op = "swap"
           /\ {last'.dst, last'.src} = {last.dst, last.src})
          => /\ sh'[last.dst] = sh[last.src]
             /\ sh'[last.src] = sh[last.dst]]_vars

\* swap has just returned on two handles of two different groups, each the
\* only alias of its group: both groups are live with a count of 1.
C19_Witness ==
    /\ last.op = "swap"
    /\ last.dst # last.src
    /\ sh[last.dst].rc # 0 /\ sh[last.src].rc # 0
    /\ sh[last.dst].rc # sh[last.src].rc
    /\ sh[last.dst].ptr # sh[last.src].ptr
    /\ \A k \in {last.dst, last.src} :
          /\ cell[sh[k].rc].st = "live" /\ cell[sh[k].rc].val = 1
          /\ obj[sh[k].ptr].st = "live"

\* C20: copy-construction, from a handle of the same type or of a related
\* type U, gives a handle with the source's target and the source's count
\* cell and raises that cell's value by exactly one; a copy of an empty
\* handle (both fields null) is empty and changes no cell. The source, every
\* other cell and every object are as they were.
C20_CopySharesAndCounts ==
    [][last'.op \in {"copy", "copyFrom"} =>
          LET h == last'.dst
              s == last'.src
          IN  /\ sh'[s] = sh[s]
              /\ obj' = obj
              /\ IF sh[s].ptr = 0 /\ sh[s].rc = 0
                 THEN sh'[h] = SharedRec(0, 0) /\ cell' = cell
                 ELSE /\ sh'[h].ptr = sh[s].ptr
                      /\ sh'[h].rc # 0
                      /\ sh'[h].rc = sh[s].rc
                      /\ cell'[sh[s].rc].val = cell[sh[s].rc].val + 1
                      /\ \A c \in DOMAIN cell \ {sh[s].rc} : cell'[c] = cell[c]]_vars

\* The number of handles in the component list of the entity a that point to
\* the count cell c.
Attached(a, c) ==
    Cardinality({i \in DOMAIN members[a] : members[a][i].rc = c})

\* The entity a is freed by this step.
EntityFreed(a) ==
    /\ obj[a].type = "Actor" /\ obj[a].st = "live"
    /\ obj'[a].st = "freed"

\* C21 as stated: in the step that frees an entity, every component attached
\* to it is freed too.
C21_ComponentsDieWithEntity ==
    [][\A a \in DOMAIN obj : EntityFreed(a) =>
          \A i \in DOMAIN members[a] :
             members[a][i].ptr # 0 => obj'[members[a][i].ptr].st = "freed"]_vars

\* C21 amended: in the step that frees an entity its list is emptied and each
\* attached component is released once per handle of the list: a component
\* that only the list holds is freed in that step, once, with its count cell;
\* a component that a handle outside the list still holds stays live and its
\* count is lower by the list's handles.
C21_ComponentsReleasedWithEntity ==
    [][\A a \in DOMAIN obj : EntityFreed(a) =>
          /\ obj'[a].frees = 1
          /\ members'[a] = <<>>
          /\ \A i \in DOMAIN members[a] :
                LET r == members[a][i]
                IN  r.ptr # 0 =>
                       IF cell[r.rc].val = Attached(a, r.rc)
                       THEN /\ obj'[r.ptr].st = "freed" /\ obj'[r.ptr].frees = 1
                            /\ cell'[r.rc].st = "freed" /\ cell'[r.rc].frees = 1
                       ELSE /\ obj'[r.ptr] = obj[r.ptr]
                            /\ cell'[r.rc].st = "live"
                            /\ cell'[r.rc].val = cell[r.rc].val - Attached(a, r.rc)]_vars

\* The last handle of an actor has just been destroyed: the actor and a
\* component only it held are freed, and a component the caller got from
\* getComponent is live with a count of 1.
C21_Witness ==
    /\ last.op = "destroy"
    /\ \E a \in DOMAIN obj : obj[a].st = "freed" /\ members[a] = <<>>
                             /\ \A h \in Handles : sh[h].ptr # a
    /\ Cardinality({o \in DOMAIN obj : obj[o].st = "freed"}) >= 2
    /\ \E h \in Handles :
          /\ sh[h].live /\ sh[h].ptr # 0
          /\ obj[sh[h].ptr].st = "live"
          /\ obj[sh[h].ptr].type \in ObjTypes
          /\ cell[sh[h].rc].val = 1

\* C22: addComponent(h) leaves the components already attached as they were,
\* in their order, and appends a handle to h's component at the end, also
\* when a component of that kind is attached already; once it has returned
\* the count of the component's group is exactly one higher and no other
\* count, no object and no handle of the caller has changed. Stated for an
\* entity the caller holds directly and for an actor reached through a handle.
C22_AddComponentAppends ==
    [][last'.op \in {"addComponent", "actorAdd"} =>
          LET arg == IF last'.op = "addComponent"
                     THEN sh[last'.dst] ELSE sh[last'.src]
              before == IF last'.op = "addComponent"
                        THEN components ELSE members[sh[last'.dst].ptr]
              after == IF last'.op = "addComponent"
                       THEN components' ELSE members'[sh[last'.dst].ptr]
          IN  /\ after = Append(before, SharedRec(arg.ptr, arg.rc))
              /\ sh' = sh
              /\ obj' = obj
              /\ \A c \in DOMAIN cell :
                    cell'[c] = IF c = arg.rc
                               THEN [cell[c] EXCEPT !.val = @ + 1]
                               ELSE cell[c]]_vars

\* addComponent has just returned after attaching a second component of the
\* kind of the first: the list holds both, and the new one's count is 2 (the
\* caller's handle and the list's).
C22_Witness ==
    /\ last.op = "addComponent"
    /\ Len(components) = 2
    /\ components[1].ptr # 0 /\ components[2].ptr # 0
    /\ components[1].ptr # components[2].ptr
    /\ obj[components[1].ptr].type = obj[components[2].ptr].type
    /\ sh[last.dst].ptr = components[2].ptr
    /\ cell[components[2].rc].val = 2

\* The component getComponent<U>() answers with among comps (0 for none).
FirstOf(comps, U) ==
    LET M == {i \in DOMAIN comps :
                 /\ comps[i].ptr # 0
                 /\ Derives(obj[comps[i].ptr].type, U)}
    IN  IF M = {} THEN 0 ELSE comps[Min(M)].ptr

C24_SeekMovesOutsideRange ==
    [][last'.op = "seek" =>
          LET o == sh[last'.dst].ptr
              a == last'.arg
              direction == Minus(a.targetPosition, data[o].position)
              moved == Minus(data'[o].position, data[o].position)
          IN  /\ data'[o].rotation = data[o].rotation
              /\ data'[o].scale = data[o].scale
              /\ IF SquaredLength(direction) > a.range * a.range
                 THEN \E distance \in Lengths(direction) :
                         /\ distance * distance = SquaredLength(direction)
                         /\ \A k \in 1..2 :
                               moved[k] * distance * a.deltaTime[2]
                                  = direction[k] * a.speed * a.deltaTime[1]
                 ELSE data'[o].position = data[o].position
              /\ (/\ a = [targetPosition |-> <<100, 0>>, speed |-> 50,
                          deltaTime |-> <<1, 1>>, range |-> 10]
                  /\ data[o].position = <<0, 0>>)
                 => data'[o].position = <<50, 0>>
              /\ (/\ a = [targetPosition |-> <<100, 0>>, speed |-> 50,
                          deltaTime |-> <<1, 1>>, range |-> 10]
                  /\ data[o].position = <<95, 0>>)
                 => data'[o].position = <<95, 0>>]_vars

\* seek toward (100,0) at speed 50 for 1 with range 10 has just returned at
\* (50,0), with a rotation and a scale the caller had set.
C24_Witness ==
    /\ last.op = "seek"
    /\ last.arg = [targetPosition |-> <<100, 0>>, speed |-> 50,
                   deltaTime |-> <<1, 1>>, range |-> 10]
    /\ data[sh[last.dst].ptr].position = <<50, 0>>
    /\ data[sh[last.dst].ptr].rotation # NoData.rotation
    /\ data[sh[last.dst].ptr].scale # NoData.scale

\* seek has just returned at exactly `range` from its target, where it stays.
C24_WitnessAtRange ==
    /\ last.op = "seek"
    /\ last.arg.range = 10 /\ last.arg.speed > 0 /\ last.arg.deltaTime[1] > 0
    /\ SquaredLength(Minus(last.arg.targetPosition,
                           data[sh[last.dst].ptr].position)) = 100

\* C25: when init() returns false, run() reports the failure once and shuts
\* down without entering the main loop: handleEvents, update and render are
\* never called and the window handle is never dereferenced.
C25_FailedInitShutsDown ==
    (app.pc # "idle" /\ ~app.initOk) =>
        /\ app.reported = 1
        /\ app.pc \in {"done", "ended"}
        /\ app.result = -1
        /\ app.calls \cap {"handleEvents", "update", "render"} = {}
        /\ ~app.derefNull

AttachedCells ==
    UNION {{members[o][i].rc : i \in DOMAIN members[o]} : o \in DOMAIN members} \ {0}

\* C30: Actor::update, Actor::render and a getComponent call whose returned
\* handle is dropped leave every component list and the group count of every
\* attached component as they were; a getComponent call whose handle the
\* caller keeps leaves every list as it was and raises by one the count of
\* the matched component only.
C30_FrameCallsKeepListAndCounts ==
    [][/\ last'.op \in {"update", "render", "actorGetDropped"} =>
            /\ members' = members
            /\ \A c \in AttachedCells : cell'[c] = cell[c]
       /\ last'.op = "actorGet" =>
            /\ members' = members
            /\ \A c \in AttachedCells :
                  IF sh'[last'.dst].ptr # 0 /\ c = sh'[last'.dst].rc
                  THEN cell'[c] = [cell[c] EXCEPT !.val = @ + 1]
                  ELSE cell'[c] = cell[c]]_vars

C30_Witness ==
    /\ last.op = "actorGet"
    /\ sh[last.dst].ptr # 0
    /\ sh[last.dst].rc \in AttachedCells
    /\ cell[sh[last.dst].rc].val = 2

C30_WitnessFrame ==
    /\ last.op \in {"update", "render", "actorGetDropped"}
    /\ AttachedCells # {}

\* C28: when reset(p) has returned the handle holds no pointer to a freed
\* object and its old target has been freed exactly once, also when p is the
\* handle's own current target, reset(h.get()).
C28_ResetLeavesNoDanglingPointer ==
    [][last'.op \in {"uReset", "uResetTo"} =>
          LET u == last'.dst
              old == uq[u].ptr
          IN  /\ uq'[u].ptr # 0 => obj'[uq'[u].ptr].st = "live"
              /\ old # 0 => obj'[old].st = "freed" /\ obj'[old].frees = 1]_vars

\* The case the claim singles out: reset(h.get()) on a handle that is the
\* only owner of a live target frees the target and keeps the pointer.
C28_SelfResetDangles ==
    /\ last.op = "uResetTo"
    /\ uq[last.dst].ptr # 0
    /\ obj[uq[last.dst].ptr].st = "freed"
    /\ obj[uq[last.dst].ptr].frees = 1
    /\ \A v \in Uniques \ {last.dst} : uq[v].ptr # uq[last.dst].ptr

\* C29: after any sequence of construct-from-pointer, reset and destroy
\* operations the slot is null or points to an object that has not been
\* freed, and no instance is freed twice, also when the pointer handed in is
\* the one the slot already holds.
C29_SlotNullOrLive ==
    /\ instance # 0 => obj[instance].st = "live"
    /\ \A o \in DOMAIN obj : obj[o].frees <= 1

\* The case the claim singles out: the slot is handed the pointer it holds.
C29_SelfAdoptDangles ==
    /\ last.op \in {"sReset", "sAdopt"}
    /\ last.dst # 0 /\ last.dst = last.src
    /\ instance = last.dst
    /\ obj[instance].st = "freed"
    /\ obj[instance].frees = 1

\* C27: when a copy assignment or a move assignment a = b has completed, a
\* refers to no freed target and to no freed count cell, also when b is a
\* handle stored inside the object that a owned as its last alias.
C27_AssignedHandleNotDangling ==
    [][last'.op \in {"copyAssign", "moveAssign"} =>
          LET a == sh'[last'.dst]
          IN  /\ a.ptr # 0 => obj'[a.ptr].st = "live"
              /\ a.rc # 0 => cell'[a.rc].st = "live"]_vars

\* The case the claim singles out: a = a->next with a the last alias of its
\* node; the node and its next were destroyed inside the assignment.
C27_NestedSourceDestroyed ==
    /\ last.op \in {"copyAssign", "moveAssign"}
    /\ last.arg = "next"
    /\ last.dst = last.src
    /\ last.uaf

\* C31, first half: the current waypoint index stays within the bounds of
\* the waypoint list.
C31_IndexInBounds ==
    app.m_waypoints # <<>> =>
        app.m_currentWaypointIndex \in 0..(Len(app.m_waypoints) - 1)

\* C31: in the waypoint-following loop the current waypoint index stays
\* within the bounds of the waypoint list and, under repeated update frames
\* with a positive step, the index eventually advances from every reachable
\* position.
C31_IndexAdvances ==
    /\ []C31_IndexInBounds
    /\ \A i \in 0..(Len(Waypoints) - 1) :
          (app.m_waypoints # <<>> /\ app.m_currentWaypointIndex = i)
              ~> (app.m_currentWaypointIndex # i)

\* The case the claim singles out: a frame with a positive step has ended
\* with the actor at distance exactly 10 from the current waypoint, where
\* neither the index test nor seek acts.
C31_StalledAtRange ==
    /\ last.op = "appUpdate"
    /\ app.m_waypoints # <<>>
    /\ app.deltaTime[1] > 0
    /\ \E o \in DOMAIN obj :
          /\ obj[o].type = "Transform"
          /\ SquaredLength(Minus(app.m_waypoints[app.m_currentWaypointIndex + 1],
                                 data[o].position)) = 10 * 10

=============================================================================
